---- MODULE Spec2Model ----
(***************************************************************************)
(* Model of the protocol-translation core of Antigravity-Manager           *)
(* (src-tauri/src/proxy).                                                  *)
(*                                                                         *)
(* Part G: ClaudeStreamConverter (claude_converter.rs), the state machine  *)
(* that rewrites Gemini streaming chunks into Anthropic SSE events.        *)
(*                                                                         *)
(* Parts H and I: TokenManager (token_manager.rs) and TokenRefresher       *)
(* (token_refresher.rs): account rotation, token refresh and project-id    *)
(* resolution by concurrent tasks.  Specification TokenSpec.               *)
(***************************************************************************)
EXTENDS Integers, Sequences, FiniteSets, TLC

(***************************************************************************)
(* Bounds of the model.                                                    *)
(***************************************************************************)
\* process_chunk is not called any more once this many blocks were closed
MaxBlocks == 2
\* process_chunk is not called any more once this many message_delta
\* events were emitted
MaxFinish == 2

(***************************************************************************)
(* Values.                                                                 *)
(***************************************************************************)
\* an absent JSON field / Option::None
Absent == "absent"

\* BlockType, claude_converter.rs:6-15
BlockType == {"None", "Text", "Thinking", "ToolUse"}

\* thoughtSignature values of the deltas (Absent: the field is missing)
Signatures == {"sig1", "sig2"}

\* delta.content: missing or "" (both read as "" by unwrap_or("")), or a text
Contents == {"", "hi"}

\* finish_reason strings; "other" stands for every string the match of
\* emit_finish does not name
FinishReasons ==
    {"length", "MAX_TOKENS", "stop", "STOP", "tool_calls", "function_call", "other"}

\* the first group of a fresh UUID v4 (8 hex digits), drawn by
\* process_function_call when the call carries no id
Uuids == {"1a2b3c4d"}

\* usage objects of a chunk: none, or one with completion_tokens
NoUsage == [completion_tokens |-> -1, output_tokens |-> -1]
Usages == {NoUsage, [completion_tokens |-> 42, output_tokens |-> -1]}

\* delta.functionCall: absent, or a call {name, args, id?}
NoCall == [present |-> FALSE, name |-> Absent, args |-> Absent, id |-> Absent]
FunctionCalls ==
    { [present |-> TRUE, name |-> "calc", args |-> "{\"a\":1}", id |-> i] :
        i \in {"c1", Absent} }

\* The deltas of a well-formed chunk.  A delta that carries a functionCall
\* is drawn with no content and no thought flag (as arb_function_call_chunk
\* builds it): process_chunk reads neither once functionCall is present.
Deltas ==
    { d \in [ content : Contents,
              thought : BOOLEAN,
              thoughtSignature : Signatures \cup {Absent},
              functionCall : FunctionCalls \cup {NoCall} ] :
        d.functionCall.present => (d.content = "" /\ ~d.thought) }

\* the delta {} of arb_finish_chunk
EmptyDelta ==
    [ content |-> "", thought |-> FALSE, thoughtSignature |-> Absent,
      functionCall |-> NoCall ]

\* the chunk {choices:[{delta:d, finish_reason?}], usage?}
Chunk(d, finish_reason, usage) ==
    [ choices |-> "array",
      content |-> d.content,
      thought |-> d.thought,
      thoughtSignature |-> d.thoughtSignature,
      functionCall |-> d.functionCall,
      finish_reason |-> finish_reason,
      usage |-> usage ]

\* the finish_reasons that are drawn together with a non-empty delta
ReasonsWithDelta == {"stop", "length"}

\* The well-formed chunks: every delta without and with a finish_reason, and
\* the finish chunk (empty delta) with every finish_reason and usage.  The
\* value of finish_reason and usage are read by emit_finish only, and the
\* handling of the delta does not depend on them.
ValidChunks ==
    { Chunk(d, f, NoUsage) : d \in Deltas, f \in ReasonsWithDelta \cup {Absent} }
      \cup { Chunk(EmptyDelta, f, u) : f \in FinishReasons, u \in Usages }

\* A malformed chunk: choices missing, not an array, or an empty array.
MalformedChunks ==
    { [ choices |-> k, content |-> "", thought |-> FALSE,
        thoughtSignature |-> Absent, functionCall |-> NoCall,
        finish_reason |-> Absent, usage |-> NoUsage ] :
        k \in {"missing", "not_array", "empty"} }

Chunks == ValidChunks \cup MalformedChunks

\* no chunk processed yet
NoChunk ==
    [ choices |-> "none", content |-> "", thought |-> FALSE,
      thoughtSignature |-> Absent, functionCall |-> NoCall,
      finish_reason |-> Absent, usage |-> NoUsage ]

(***************************************************************************)
(* SSE events: StreamEvent {event, data}; the fields of data the converter *)
(* writes are kept, the others are Absent / -1.                            *)
(***************************************************************************)
create_event(name, index, type, value) ==
    [ event |-> name, index |-> index, type |-> type, value |-> value,
      id |-> Absent, name |-> Absent, signature |-> Absent, output_tokens |-> -1 ]

\* content_block_start of a text or thinking block (content is "")
BlockStart(index, type) == create_event("content_block_start", index, type, "")

\* content_block_start of a tool_use block {id, name, input:{}, signature?}
ToolUseStart(index, id, name, sig) ==
    [ create_event("content_block_start", index, "tool_use", "{}")
        EXCEPT !.id = id, !.name = name, !.signature = sig ]

\* content_block_delta with delta {type, <payload>}
BlockDelta(index, type, value) == create_event("content_block_delta", index, type, value)

BlockStop(index) == create_event("content_block_stop", index, Absent, Absent)

\* message_delta {delta:{stop_reason}, usage:{output_tokens}}
MessageDelta(stop_reason, output_tokens) ==
    [ create_event("message_delta", -1, Absent, stop_reason)
        EXCEPT !.output_tokens = output_tokens ]

MessageStop == create_event("message_stop", -1, Absent, Absent)

(***************************************************************************)
(* ClaudeStreamConverter.  A converter value s is the record of the        *)
(* struct's fields together with `events`, the Vec<StreamEvent> that the   *)
(* running call has built so far.                                          *)
(***************************************************************************)
\* ClaudeStreamConverter::new
new ==
    [ block_index |-> 0,
      current_type |-> "None",
      message_start_sent |-> FALSE,
      message_stop_sent |-> FALSE,
      used_tool |-> FALSE,
      pending_signature |-> Absent,
      trailing_signature |-> Absent,
      has_content |-> FALSE,
      events |-> << >> ]

push(s, evs) == [s EXCEPT !.events = @ \o evs]

\* end_block: close the open block, a thinking block's pending signature first
end_block(s) ==
    IF s.current_type = "None" THEN s
    ELSE LET take == s.current_type = "Thinking" /\ s.pending_signature # Absent
             sig_delta ==
                 IF take
                 THEN << BlockDelta(s.block_index, "signature_delta", s.pending_signature) >>
                 ELSE << >>
         IN  [ push(s, sig_delta \o << BlockStop(s.block_index) >>)
                 EXCEPT !.pending_signature = IF take THEN Absent ELSE @,
                        !.block_index = @ + 1,
                        !.current_type = "None" ]

\* the four events of an empty thinking block that carries a signature
SignatureBlock(index, sig) ==
    << BlockStart(index, "thinking"),
       BlockDelta(index, "thinking_delta", ""),
       BlockDelta(index, "signature_delta", sig),
       BlockStop(index) >>

\* emit_trailing_signature_block without `self.block_index += 1` (line 391)
emit_trailing_signature_block_no_bump(s) ==
    IF s.trailing_signature = Absent THEN s
    ELSE LET sig == s.trailing_signature
             s1 == end_block([s EXCEPT !.trailing_signature = Absent])
         IN  push(s1, SignatureBlock(s1.block_index, sig))

\* emit_trailing_signature_block
emit_trailing_signature_block(s) ==
    IF s.trailing_signature = Absent THEN s
    ELSE LET sig == s.trailing_signature
             s1 == end_block([s EXCEPT !.trailing_signature = Absent])
         IN  [ push(s1, SignatureBlock(s1.block_index, sig))
                 EXCEPT !.block_index = @ + 1 ]

\* process_thinking that keeps a pending signature instead of overwriting it
process_thinking_keeps_first(s, text, signature) ==
    LET s1 == IF s.current_type = "Text" THEN end_block(s) ELSE s
        s2 == IF s1.current_type = "None"
              THEN [ push(s1, << BlockStart(s1.block_index, "thinking") >>)
                       EXCEPT !.current_type = "Thinking" ]
              ELSE s1
        s3 == IF text # ""
              THEN push(s2, << BlockDelta(s2.block_index, "thinking_delta", text) >>)
              ELSE s2
    IN  IF signature # Absent /\ s3.pending_signature = Absent
        THEN [s3 EXCEPT !.pending_signature = signature]
        ELSE s3

\* process_thinking
process_thinking(s, text, signature) ==
    LET s1 == IF s.current_type = "Text" THEN end_block(s) ELSE s
        s2 == IF s1.current_type = "None"
              THEN [ push(s1, << BlockStart(s1.block_index, "thinking") >>)
                       EXCEPT !.current_type = "Thinking" ]
              ELSE s1
        s3 == IF text # ""
              THEN push(s2, << BlockDelta(s2.block_index, "thinking_delta", text) >>)
              ELSE s2
    IN  IF signature # Absent
        THEN [s3 EXCEPT !.pending_signature = signature]
        ELSE s3

\* process_text
process_text(s, text) ==
    LET s1 == IF s.current_type = "Thinking" THEN end_block(s) ELSE s
        s2 == IF s1.current_type = "None"
              THEN [ push(s1, << BlockStart(s1.block_index, "text") >>)
                       EXCEPT !.current_type = "Text" ]
              ELSE s1
    IN  push(s2, << BlockDelta(s2.block_index, "text_delta", text) >>)

\* process_text_with_signature without its first end_block call (line 250)
process_text_with_signature_no_close(s, text, signature) ==
    LET s2 == [ push(s, << BlockStart(s.block_index, "text"),
                           BlockDelta(s.block_index, "text_delta", text) >>)
                  EXCEPT !.current_type = "Text" ]
        s3 == end_block(s2)
    IN  IF signature # Absent
        THEN [ push(s3, SignatureBlock(s3.block_index, signature))
                 EXCEPT !.block_index = @ + 1 ]
        ELSE s3

\* process_text_with_signature
process_text_with_signature(s, text, signature) ==
    LET s1 == end_block(s)
        s2 == [ push(s1, << BlockStart(s1.block_index, "text"),
                            BlockDelta(s1.block_index, "text_delta", text) >>)
                  EXCEPT !.current_type = "Text" ]
        s3 == end_block(s2)
    IN  IF signature # Absent
        THEN [ push(s3, SignatureBlock(s3.block_index, signature))
                 EXCEPT !.block_index = @ + 1 ]
        ELSE s3

\* the id of a call without id: format!("{}-{}", name, <8 hex of a UUID>)
GeneratedId(name, uuid) == name \o "-" \o uuid

\* a tool_use block whose input_json_delta drops the call's args
ArgsJson_always_empty(fc) == "{}"

\* serde_json::to_string(&args); a call without args has args {}
ArgsJson(fc) == IF fc.args = Absent THEN "{}" ELSE fc.args

\* process_function_call without its end_block call (line 311)
process_function_call_no_close(s, fc, signature, uuid) ==
    LET name == IF fc.name = Absent THEN "unknown" ELSE fc.name
        id == IF fc.id = Absent THEN GeneratedId(name, uuid) ELSE fc.id
    IN  [ push(s, << ToolUseStart(s.block_index, id, name, signature),
                     BlockDelta(s.block_index, "input_json_delta", ArgsJson(fc)) >>)
            EXCEPT !.current_type = "ToolUse",
                   !.used_tool = TRUE ]

\* process_function_call
process_function_call(s, fc, signature, uuid) ==
    LET s1 == end_block(s)
        name == IF fc.name = Absent THEN "unknown" ELSE fc.name
        id == IF fc.id = Absent THEN GeneratedId(name, uuid) ELSE fc.id
    IN  [ push(s1, << ToolUseStart(s1.block_index, id, name, signature),
                      BlockDelta(s1.block_index, "input_json_delta", ArgsJson(fc)) >>)
            EXCEPT !.current_type = "ToolUse",
                   !.used_tool = TRUE ]

\* the stop_reason mapping without the precedence of used_tool
StopReason_ignores_used_tool(used_tool, finish_reason) ==
    CASE finish_reason \in {"length", "MAX_TOKENS"} -> "max_tokens"
      [] finish_reason \in {"stop", "STOP"} -> "end_turn"
      [] finish_reason \in {"tool_calls", "function_call"} -> "tool_use"
      [] OTHER -> "end_turn"

\* the stop_reason of message_delta (emit_finish, lines 448-458)
StopReason(used_tool, finish_reason) ==
    IF used_tool THEN "tool_use"
    ELSE CASE finish_reason \in {"length", "MAX_TOKENS"} -> "max_tokens"
           [] finish_reason \in {"stop", "STOP"} -> "end_turn"
           [] finish_reason \in {"tool_calls", "function_call"} -> "tool_use"
           [] OTHER -> "end_turn"

\* usage.completion_tokens, else usage.output_tokens, else 0 (lines 460-464)
OutputTokens(usage) ==
    IF usage.completion_tokens # -1 THEN usage.completion_tokens
    ELSE IF usage.output_tokens # -1 THEN usage.output_tokens
    ELSE 0

\* a wrong finish: the converter forgets that a tool was used
emit_finish_forgets_tool(s, finish_reason, usage) ==
    LET s1 == end_block(s)
        s2 == IF s1.trailing_signature # Absent
              THEN emit_trailing_signature_block(s1)
              ELSE s1
        s3 == push(s2, << MessageDelta(StopReason(s2.used_tool, finish_reason),
                                       OutputTokens(usage)) >>)
    IN  IF ~s3.message_stop_sent
        THEN [ push(s3, << MessageStop >>) EXCEPT !.message_stop_sent = TRUE,
                                                  !.used_tool = FALSE ]
        ELSE [s3 EXCEPT !.used_tool = FALSE]

\* emit_finish
emit_finish(s, finish_reason, usage) ==
    LET s1 == end_block(s)
        s2 == IF s1.trailing_signature # Absent
              THEN emit_trailing_signature_block(s1)
              ELSE s1
        s3 == push(s2, << MessageDelta(StopReason(s2.used_tool, finish_reason),
                                       OutputTokens(usage)) >>)
    IN  IF ~s3.message_stop_sent
        THEN [ push(s3, << MessageStop >>) EXCEPT !.message_stop_sent = TRUE ]
        ELSE s3

\* the branch of process_chunk's state machine a well-formed chunk takes
IsFunctionCall(c) == c.functionCall.present
IsTrailingSignature(c) ==
    ~IsFunctionCall(c) /\ c.content = "" /\ ~c.thought /\ c.thoughtSignature # Absent
IsThinking(c) == ~IsFunctionCall(c) /\ ~IsTrailingSignature(c) /\ c.thought
IsText(c) ==
    ~IsFunctionCall(c) /\ ~IsTrailingSignature(c) /\ ~c.thought /\ c.content # ""

\* lines 100-103: the has_content update
update_has_content(s, c) ==
    IF c.content # "" \/ c.thought \/ c.thoughtSignature # Absent \/ c.functionCall.present
    THEN [s EXCEPT !.has_content = TRUE]
    ELSE s

\* `if self.trailing_signature.is_some() { emit_trailing_signature_block() }`
drain_trailing_signature(s) ==
    IF s.trailing_signature # Absent THEN emit_trailing_signature_block(s) ELSE s

\* steps 3 and 4 of process_chunk (lines 124-146): the thinking and text deltas
process_delta(s, c) ==
    IF c.thought
    THEN process_thinking(drain_trailing_signature(s), c.content, c.thoughtSignature)
    ELSE IF c.content # ""
    THEN IF c.thoughtSignature # Absent
         THEN process_text_with_signature(drain_trailing_signature(s),
                                          c.content, c.thoughtSignature)
         ELSE process_text(drain_trailing_signature(s), c.content)
    ELSE s

\* step 5 of process_chunk (lines 148-152)
process_finish_reason(s, c) ==
    IF c.finish_reason # Absent
    THEN emit_finish(s, c.finish_reason, c.usage)
    ELSE s

\* process_chunk that takes a malformed chunk for the end of the open block
process_chunk_closes_on_malformed(s, c, uuid) ==
    IF c.choices # "array" THEN end_block(s)
    ELSE LET s1 == update_has_content(s, c)
         IN  IF c.functionCall.present
             THEN process_function_call(drain_trailing_signature(s1),
                                        c.functionCall, c.thoughtSignature, uuid)
             ELSE IF c.content = "" /\ ~c.thought /\ c.thoughtSignature # Absent
             THEN [s1 EXCEPT !.trailing_signature = c.thoughtSignature]
             ELSE process_finish_reason(process_delta(s1, c), c)

\* process_chunk: s.events is empty on entry and is the returned Vec on exit
process_chunk(s, c, uuid) ==
    IF c.choices # "array" THEN s
    ELSE LET s1 == update_has_content(s, c)
         IN  IF c.functionCall.present
             THEN process_function_call(drain_trailing_signature(s1),
                                        c.functionCall, c.thoughtSignature, uuid)
             ELSE IF c.content = "" /\ ~c.thought /\ c.thoughtSignature # Absent
             THEN [s1 EXCEPT !.trailing_signature = c.thoughtSignature]
             ELSE process_finish_reason(process_delta(s1, c), c)

\* mark_message_start_sent
mark_message_start_sent(s) == [s EXCEPT !.message_start_sent = TRUE]

(***************************************************************************)
(* The observer of the emitted event sequence: validate_event_sequence of  *)
(* the converter's tests, run incrementally over every event the converter *)
(* returns, extended by what the properties of the event sequence need     *)
(* (the index and type of the open block, the counts of message_delta and  *)
(* message_stop, the signatures of the open thinking block).               *)
(***************************************************************************)
\* observed input: a thinking delta handed process_thinking a signature
SignatureReceived(sig) == create_event("thought_signature", -1, Absent, sig)

NewObserver ==
    [ block_started |-> FALSE,      \* validate_event_sequence: block_started
      block_index |-> 0,            \* validate_event_sequence: block_index
      valid |-> TRUE,               \* validate_event_sequence returned no Err so far
      n_message_delta |-> 0,        \* has_message_delta, counted
      n_message_stop |-> 0,         \* has_message_stop, counted
      open_index |-> -1,            \* index of the last content_block_start
      open_type |-> Absent,         \* content_block.type of the open block
      stops_match |-> TRUE,         \* every stop carried the index of the open block
      starts_follow |-> TRUE,       \* every start carried the previous start's index + 1
      message_last |-> TRUE,        \* no block event after message_delta / message_stop,
                                    \* message_delta before message_stop
      run_signature |-> Absent,     \* last signature received by the open thinking block
      open_signatures |-> << >>,    \* signature_delta values emitted in the open block
      signatures_match |-> TRUE,    \* closed thinking blocks emitted what they received
      run_overwritten |-> FALSE,    \* the open thinking block received two different signatures
      signed_closed |-> 0,          \* 1: a thinking block that received a signature closed;
                                    \* 2: one that received two different signatures closed
      tool_use_opened |-> FALSE ]   \* some tool_use block was started

ObserveEvent(m, e) ==
    CASE e.event = "content_block_start" ->
           [ m EXCEPT !.valid = @ /\ ~m.block_started /\ e.index = m.block_index,
                      !.block_started = TRUE,
                      !.starts_follow = @ /\ e.index = m.open_index + 1,
                      !.open_index = e.index,
                      !.open_type = e.type,
                      !.run_signature = Absent,
                      !.run_overwritten = FALSE,
                      !.open_signatures = << >>,
                      !.tool_use_opened = @ \/ e.type = "tool_use",
                      !.message_last = @ /\ m.n_message_delta = 0 /\ m.n_message_stop = 0 ]
      [] e.event = "content_block_stop" ->
           [ m EXCEPT !.valid = @ /\ m.block_started,
                      !.block_started = FALSE,
                      !.block_index = @ + 1,
                      !.stops_match = @ /\ m.block_started /\ e.index = m.open_index,
                      !.signatures_match =
                          @ /\ ( (m.open_type = "thinking" /\ m.run_signature # Absent)
                                   => m.open_signatures = << m.run_signature >> ),
                      !.signed_closed =
                          IF m.open_type = "thinking" /\ m.run_signature # Absent
                          THEN IF m.run_overwritten \/ @ = 2 THEN 2 ELSE 1
                          ELSE @,
                      !.open_type = Absent,
                      !.run_signature = Absent,
                      !.run_overwritten = FALSE,
                      !.open_signatures = << >>,
                      !.message_last = @ /\ m.n_message_delta = 0 /\ m.n_message_stop = 0 ]
      [] e.event = "content_block_delta" ->
           [ m EXCEPT !.valid = @ /\ m.block_started,
                      !.open_signatures =
                          IF e.type = "signature_delta" /\ e.index = m.open_index
                          THEN Append(@, e.value) ELSE @,
                      !.signatures_match =
                          @ /\ (e.type = "signature_delta"
                                  => (m.block_started /\ e.index = m.open_index)),
                      !.message_last = @ /\ m.n_message_delta = 0 /\ m.n_message_stop = 0 ]
      [] e.event = "message_delta" ->
           [ m EXCEPT !.n_message_delta = @ + 1,
                      !.message_last = @ /\ m.n_message_stop = 0 ]
      [] e.event = "message_stop" ->
           [ m EXCEPT !.n_message_stop = @ + 1,
                      !.message_last = @ /\ m.n_message_delta > 0 ]
      [] e.event = "thought_signature" ->
           IF m.block_started /\ m.open_type = "thinking"
           THEN [ m EXCEPT !.run_signature = e.value,
                           !.run_overwritten =
                               @ \/ (m.run_signature # Absent /\ m.run_signature # e.value) ]
           ELSE m
      [] OTHER -> m

RECURSIVE Observe(_, _)
Observe(m, evs) ==
    IF evs = << >> THEN m ELSE Observe(ObserveEvent(m, Head(evs)), Tail(evs))

\* The events of one process_chunk call as the observer sees them: the
\* returned events, with the signature that process_thinking was handed
\* (line 131) placed where process_thinking returned.
Observation(s, c, evs) ==
    IF c.choices = "array" /\ IsThinking(c) /\ c.thoughtSignature # Absent
    THEN LET n == Len(process_delta(update_has_content(s, c), c).events)
         IN  SubSeq(evs, 1, n) \o << SignatureReceived(c.thoughtSignature) >>
               \o SubSeq(evs, n + 1, Len(evs))
    ELSE evs

(***************************************************************************)
(* Part H: TokenManager (token_manager.rs) and part I: TokenRefresher      *)
(* (token_refresher.rs).  The account store, the OAuth service, the        *)
(* project resolver and the clock are the environment.                     *)
(***************************************************************************)
\* `now >= token.timestamp - 300` in get_token
ExpiryMargin == 300
\* refresh_ahead_secs of TokenRefresher::with_defaults (10 * 60)
refresh_ahead_secs == 600

\* get_token is not called any more once the rotation counter reached this
MaxCalls == 2

\* the account files of the data directory, in the order DashMap::iter
\* walks their records (fixed while the account set is unchanged)
AccountIds == << "a1", "a2" >>

\* an id no account file has
UnknownId == "ghost"

\* chrono::Utc::now().timestamp() at the moments the model observes
Instants == {299, 300, 301}

\* Result::Err of a collaborator or of a file operation
Err == "err"

\* TokenResponse {access_token, expires_in} of the OAuth service
NoResponse == [access_token |-> Absent, expires_in |-> -1]
TokenResponses == [access_token : {"at1"}, expires_in : {3600}]

\* refresh_access_token(..).await: Ok(token_response) or Err
OAuthResults ==
    { [ok |-> TRUE, response |-> r] : r \in TokenResponses }
        \cup { [ok |-> FALSE, response |-> NoResponse] }

\* fetch_project_id(..).await: Ok(project_id) or Err
ProjectIds == {"proj1"}
ProjectResults == ProjectIds \cup {Err}

\* generate_mock_project_id(): a random placeholder id
MockProjectIds == {"mock1", "mock2"}

\* the token object of an account file, as load_single_account reads it
AccountFile(expiry_timestamp, project_id) ==
    [ access_token |-> "at0",
      expires_in |-> 3599,
      expiry_timestamp |-> expiry_timestamp,
      project_id |-> project_id ]

\* the accounts directory.  One account file, whose token expires soon and
\* whose project id may be missing; or two, the first with a project id and
\* a token that expires soon, the second without project id
AccountStores ==
    { [a \in {AccountIds[1]} |-> AccountFile(600, project_id)] :
        project_id \in {Absent} \cup ProjectIds }
    \cup
    { [a \in {AccountIds[1], AccountIds[2]} |->
         IF a = AccountIds[1] THEN AccountFile(600, "proj1") ELSE AccountFile(901, Absent)] }

\* struct ProxyToken (email and account_path follow from account_id)
ProxyToken(account_id, file) ==
    [ account_id |-> account_id,
      access_token |-> file.access_token,
      refresh_token |-> "rt-" \o account_id,
      expires_in |-> file.expires_in,
      timestamp |-> file.expiry_timestamp,
      project_id |-> file.project_id,
      session_id |-> "sid-" \o account_id ]

\* Option<ProxyToken>::None
NoToken ==
    [ account_id |-> Absent, access_token |-> Absent, refresh_token |-> Absent,
      expires_in |-> -1, timestamp |-> -1, project_id |-> Absent, session_id |-> Absent ]

\* load_single_account
load_single_account(account_id, dir) == ProxyToken(account_id, dir[account_id])

\* load_accounts: one record per account file
load_accounts(dir) == [a \in DOMAIN dir |-> load_single_account(a, dir)]

\* self.tokens.len()
len(m) == Cardinality(DOMAIN m)

\* self.tokens.iter(): the keys in iteration order
iter(m) == SelectSeq(AccountIds, LAMBDA a : a \in DOMAIN m)

\* self.tokens.iter().nth(idx).map(|entry| entry.value().clone())
nth(m, idx) == IF idx < len(m) THEN m[iter(m)[idx + 1]] ELSE NoToken

\* get_all_tokens
get_all_tokens(m) == [i \in 1..len(m) |-> m[iter(m)[i]]]

\* a counter that hands the same value to the next caller
fetch_add_forgets(counter) == counter

\* current_index.fetch_add(1, SeqCst): the new value of the counter (the
\* old one is returned)
fetch_add(counter) == counter + 1

\* `now >= token.timestamp - 300` (get_token line 148)
token_expiring(token, now) == now >= token.timestamp - ExpiryMargin

\* get_token lines 157-159: the clone takes the response
refreshed(token, response, now) ==
    [token EXCEPT !.access_token = response.access_token,
                  !.expires_in = response.expires_in,
                  !.timestamp = now + response.expires_in]

\* get_token lines 167-171: the record takes the clone's token fields
store_refreshed(m, token) ==
    IF token.account_id \in DOMAIN m
    THEN [m EXCEPT ![token.account_id].access_token = token.access_token,
                   ![token.account_id].expires_in = token.expires_in,
                   ![token.account_id].timestamp = token.timestamp]
    ELSE m

\* a store that keeps the first project id of a record
store_project_id_keeps_none(m, account_id, project_id) == m

\* get_token lines 197-199 and 213-215: the record takes the project id
store_project_id(m, account_id, project_id) ==
    IF account_id \in DOMAIN m
    THEN [m EXCEPT ![account_id].project_id = project_id]
    ELSE m

\* save_project_id, when every file operation succeeds
save_project_id(dir, account_id, project_id) ==
    [dir EXCEPT ![account_id].project_id = project_id]

\* save_refreshed_token, when every file operation succeeds
save_refreshed_token(dir, account_id, response, now) ==
    [dir EXCEPT ![account_id].access_token = response.access_token,
                  ![account_id].expires_in = response.expires_in,
                  ![account_id].expiry_timestamp = now + response.expires_in]

\* an update_token that leaves the expiry of the record as it was
update_entry_keeps_expiry(m, account_id, response, now) ==
    [m EXCEPT ![account_id].access_token = response.access_token,
              ![account_id].expires_in = response.expires_in]

\* update_token lines 291-295: the in-memory update of a known account
update_entry(m, account_id, response, now) ==
    [m EXCEPT ![account_id].access_token = response.access_token,
              ![account_id].expires_in = response.expires_in,
              ![account_id].timestamp = now + response.expires_in]

\* a should_refresh that waits until the token is past the margin
should_refresh_strict(token, ahead_secs, now) == now + ahead_secs > token.timestamp

\* TokenRefresher::should_refresh, with the clock's reading
should_refresh(token, ahead_secs, now) == now + ahead_secs >= token.timestamp

\* a request task between two get_token calls
IdleRequest ==
    [ pc |-> "idle", ticket |-> -1, idx |-> -1, token |-> NoToken, now |-> -1 ]

\* the refresher task asleep between two ticks
SleepingRefresher ==
    [ pc |-> "sleeping", tokens |-> << >>, response |-> NoResponse ]

\* no update_token call from outside the refresher was made
IdleUpdater ==
    [ pc |-> "idle", account_id |-> Absent, response |-> NoResponse, result |-> Absent ]

\* the request tasks that call get_token
Requests == {"r1", "r2"}

VARIABLES
    tokens,          \* TokenManager.tokens: account_id -> ProxyToken
    current_index,   \* TokenManager.current_index
    files,           \* the token objects of the account files
    clock,           \* chrono::Utc::now().timestamp()
    requests,        \* the request tasks: where each is in get_token, its locals
    refresher,       \* the task spawned by TokenRefresher::start
    updater          \* a caller of update_token other than the refresher

tokenVars == << tokens, current_index, files, clock, requests, refresher, updater >>

\* DashMap::new()
EmptyMap == [a \in {} |-> NoToken]

\* TokenManager::new over the accounts directory `dir`, no task started
TokenManagerNew(dir) ==
    /\ tokens = EmptyMap
    /\ current_index = 0
    /\ files = dir
    /\ clock = CHOOSE t \in Instants : \A u \in Instants : t <= u
    /\ requests = [p \in Requests |-> IdleRequest]
    /\ refresher = SleepingRefresher
    /\ updater = IdleUpdater

(***************************************************************************)
(* The signature cache (signature_manager.rs) and the loop of the task     *)
(* that TokenRefresher spawns (token_refresher.rs:61-84).                  *)
(***************************************************************************)
\* SignatureManager::with_defaults: the TTL of an entry, in seconds
expiry_secs == 3600

\* the keys of the cache: tool_use ids
ToolUseIds == {"toolu_1", "toolu_2"}

\* SignatureEntry::new at the instant `now`
SignatureEntry(signature, now) == [signature |-> signature, created_at |-> now]

\* a wrong is_expired: an entry expires when its age reaches the TTL
is_expired_at_ttl(entry, ttl, now) == now - entry.created_at >= ttl

\* SignatureEntry::is_expired: (now - created_at) as u64 > expiry_secs; a
\* negative difference cast to u64 is at least 2^63 and exceeds the TTL
is_expired(entry, ttl, now) ==
    LET age == now - entry.created_at
    IN  IF age < 0 THEN TRUE ELSE age > ttl

\* DashMap::new(): no entry
NoSignatures == [k \in {} |-> SignatureEntry("", 0)]

\* store_tool_signature and store_signature: DashMap::insert replaces the
\* entry under the key
store_tool_signature(m, tool_use_id, signature, now) ==
    [k \in DOMAIN m \cup {tool_use_id} |->
        IF k = tool_use_id THEN SignatureEntry(signature, now) ELSE m[k]]

\* get_tool_signature: the map it leaves and the Option it returns
get_tool_signature(m, tool_use_id, ttl, now) ==
    IF tool_use_id \in DOMAIN m
    THEN IF ~is_expired(m[tool_use_id], ttl, now)
         THEN [map |-> m, result |-> m[tool_use_id].signature]
         ELSE [map |-> [k \in DOMAIN m \ {tool_use_id} |-> m[k]], result |-> Absent]
    ELSE [map |-> m, result |-> Absent]

\* a wrong cleanup_expired: it returns the number of entries it found
cleanup_expired_counts_all(m, ttl, now) ==
    [ map |-> [k \in {j \in DOMAIN m : ~is_expired(m[j], ttl, now)} |-> m[k]],
      result |-> Cardinality(DOMAIN m) ]

\* cleanup_expired, no other call on the cache meanwhile: the map it leaves
\* and its removed_count
cleanup_expired(m, ttl, now) ==
    LET expired_keys == {k \in DOMAIN m : is_expired(m[k], ttl, now)}
    IN  [ map |-> [k \in DOMAIN m \ expired_keys |-> m[k]],
          result |-> Cardinality(expired_keys) ]

\* no call on the cache is between two of its steps
NoPending ==
    [ evicting |-> Absent, cleaning |-> FALSE, expired_keys |-> {}, removed_count |-> 0 ]

\* no call on the cache was made yet
NoCacheCall ==
    [ op |-> "none", key |-> Absent, signature |-> Absent, result |-> Absent,
      removed_count |-> 0 ]

VARIABLES
    tool_signatures,     \* SignatureManager.tool_signatures
    last_call,           \* the last call on the cache, and what it returned
    cancel_token,        \* TokenRefresher.cancel_token is cancelled
    sleep_elapsed,       \* the sleep of the loop's select! has reached its deadline
    signature_manager,   \* the Option<Arc<SignatureManager>> the task was given
    pending              \* the calls on the cache that are between two of their steps

sigVars == << tool_signatures, last_call, pending >>

loopVars == << cancel_token, sleep_elapsed, signature_manager >>

VARIABLES
    call,                \* a call of one of the functions without state: its arguments
    returned             \* whether the call has returned, and its result

pureVars == << call, returned >>

\* no function without state is being called
NoPureCall ==
    /\ call = [fn |-> "none"]
    /\ returned = [done |-> FALSE]

\* SignatureManager::with_defaults() and TokenRefresher::new: an empty
\* cache, a token that is not cancelled
SignatureManagerNew ==
    /\ tool_signatures = NoSignatures
    /\ last_call = NoCacheCall
    /\ pending = NoPending
    /\ cancel_token = FALSE
    /\ sleep_elapsed = FALSE
    /\ signature_manager = "None"

(***************************************************************************)
(* State.                                                                  *)
(***************************************************************************)
VARIABLES
    block_index,          \* ClaudeStreamConverter.block_index
    current_type,         \* ClaudeStreamConverter.current_type
    message_start_sent,   \* ClaudeStreamConverter.message_start_sent
    message_stop_sent,    \* ClaudeStreamConverter.message_stop_sent
    used_tool,            \* ClaudeStreamConverter.used_tool
    pending_signature,    \* ClaudeStreamConverter.pending_signature
    trailing_signature,   \* ClaudeStreamConverter.trailing_signature
    has_content,          \* ClaudeStreamConverter.has_content
    chunk,                \* the json_chunk of the last process_chunk call
    events,               \* the Vec<StreamEvent> the last process_chunk call returned
    seen                  \* the observer of all events returned so far

convVars ==
    << block_index, current_type, message_start_sent, message_stop_sent, used_tool,
       pending_signature, trailing_signature, has_content >>

\* the state of the parts that the stream converter and the token manager do
\* not touch
otherVars == << sigVars, loopVars, pureVars >>

vars == << convVars, chunk, events, seen, tokenVars, otherVars >>

\* the converter as the next call finds it
Self ==
    [ block_index |-> block_index,
      current_type |-> current_type,
      message_start_sent |-> message_start_sent,
      message_stop_sent |-> message_stop_sent,
      used_tool |-> used_tool,
      pending_signature |-> pending_signature,
      trailing_signature |-> trailing_signature,
      has_content |-> has_content,
      events |-> << >> ]

\* the converter after a call that left it as r
Becomes(r) ==
    /\ block_index' = r.block_index
    /\ current_type' = r.current_type
    /\ message_start_sent' = r.message_start_sent
    /\ message_stop_sent' = r.message_stop_sent
    /\ used_tool' = r.used_tool
    /\ pending_signature' = r.pending_signature
    /\ trailing_signature' = r.trailing_signature
    /\ has_content' = r.has_content

\* ClaudeStreamConverter::new(), nothing processed yet
StreamInit ==
    /\ block_index = new.block_index
    /\ current_type = new.current_type
    /\ message_start_sent = new.message_start_sent
    /\ message_stop_sent = new.message_stop_sent
    /\ used_tool = new.used_tool
    /\ pending_signature = new.pending_signature
    /\ trailing_signature = new.trailing_signature
    /\ has_content = new.has_content
    /\ chunk = NoChunk
    /\ events = << >>
    /\ seen = NewObserver

\* the converter of one request; the token manager is left as constructed
Init == StreamInit /\ TokenManagerNew(EmptyMap) /\ SignatureManagerNew /\ NoPureCall

\* the stream goes on while the bounds of the model allow it
StreamOpen == block_index < MaxBlocks /\ seen.n_message_delta < MaxFinish

\* converter.process_chunk(&c)
ProcessChunk(c, uuid) ==
    /\ StreamOpen
    /\ LET r == process_chunk(Self, c, uuid)
       IN  /\ Becomes(r)
           /\ events' = r.events
           /\ seen' = Observe(seen, Observation(Self, c, r.events))
    /\ chunk' = c
    /\ UNCHANGED << tokenVars, otherVars >>

\* converter.mark_message_start_sent()
MarkMessageStartSent ==
    /\ Becomes(mark_message_start_sent(Self))
    /\ UNCHANGED << chunk, events, seen, tokenVars, otherVars >>

Next ==
    \/ \E c \in Chunks, uuid \in Uuids : ProcessChunk(c, uuid)
    \/ MarkMessageStartSent

Spec == Init /\ [][Next]_vars

(***************************************************************************)
(* Properties of the stream converter.                                     *)
(***************************************************************************)
\* a step of the behaviour that is a process_chunk call (of chunk')
ProcessChunkStep == \E uuid \in Uuids : ProcessChunk(chunk', uuid)

\* the finish chunk of the tests (arb_finish_chunk): delta {} and a finish_reason
IsFinishChunk(c) ==
    /\ c.choices = "array"
    /\ c.finish_reason # Absent
    /\ c = Chunk(EmptyDelta, c.finish_reason, c.usage)

\* the positions of `evs` that hold an event named `name`
Positions(evs, name) == { i \in DOMAIN evs : evs[i].event = name }

\* C1: the events emitted so far are balanced (no content_block_start while
\* a block is open, every content_block_stop closes the open block and
\* carries its index, no content_block_delta or content_block_stop while no
\* block is open), and once a finish chunk has been processed no block is
\* left open.
C1_EventsBalanced ==
    /\ seen.valid
    /\ seen.stops_match
    /\ IsFinishChunk(chunk) => ~seen.block_started

\* C1 witness: a finish chunk closed the block that was open, after at
\* least one other block
C1_Witness ==
    /\ IsFinishChunk(chunk)
    /\ seen.block_index >= 2
    /\ Positions(events, "content_block_stop") # {}

\* C2: the first content_block_start carries index 0 and each later one the
\* previous start's index plus one; block_index is the number of
\* content_block_stop events emitted; current_type is None exactly when no
\* emitted block is open.
C2_BlockIndexCountsStops ==
    /\ seen.starts_follow
    /\ block_index = seen.block_index
    /\ (current_type = "None") <=> ~seen.block_started

\* C2 witness: two blocks closed and a third one open
C2_Witness ==
    /\ seen.block_index = 2
    /\ seen.block_started
    /\ seen.open_index = 2

\* C3: once a finish chunk has been processed, the events emitted so far
\* hold exactly one message_delta and exactly one message_stop, message_delta
\* before message_stop, and no content_block event after either of them.
C3_OneMessageDeltaOneMessageStop ==
    IsFinishChunk(chunk) =>
        /\ seen.n_message_delta = 1
        /\ seen.n_message_stop = 1
        /\ seen.message_last

\* the stop-reason table of the specification, for a stream without tool_use
ExpectedStopReason(finish_reason) ==
    CASE finish_reason = "length" -> "max_tokens"
      [] finish_reason = "MAX_TOKENS" -> "max_tokens"
      [] finish_reason = "stop" -> "end_turn"
      [] finish_reason = "STOP" -> "end_turn"
      [] finish_reason = "tool_calls" -> "tool_use"
      [] finish_reason = "function_call" -> "tool_use"
      [] OTHER -> "end_turn"

\* C4: every message_delta carries stop_reason tool_use if a tool_use block
\* was opened earlier in the stream (which is what used_tool records),
\* whatever the chunk's finish_reason, and the table's entry for the
\* finish_reason otherwise.
C4_StopReasonMapping ==
    /\ used_tool <=> seen.tool_use_opened
    /\ \A i \in Positions(events, "message_delta") :
          events[i].value = IF seen.tool_use_opened
                            THEN "tool_use"
                            ELSE ExpectedStopReason(chunk.finish_reason)

\* C4 witness: a finish_reason of length after a tool_use block gave tool_use
C4_Witness ==
    /\ chunk.finish_reason = "length"
    /\ seen.tool_use_opened
    /\ \E i \in Positions(events, "message_delta") : events[i].value = "tool_use"

\* C5: every closed thinking block that received a thoughtSignature with one
\* of its thinking deltas emitted exactly one signature_delta, with the
\* block's index, before its content_block_stop, and that signature_delta
\* carries the last signature the block received (the observer compares, at
\* each content_block_stop, the signature_delta events of the block with the
\* last signature handed to process_thinking while the block was open).
C5_SignatureDeltaBeforeStop == seen.signatures_match

\* C5 witness: a thinking block that received two different signatures closed
C5_Witness == seen.signed_closed = 2

\* a well-formed chunk of the trailing-signature branch (empty text, thought
\* not true, a thoughtSignature, no functionCall)
IsMarker(c) == c.choices = "array" /\ IsTrailingSignature(c)

\* a well-formed chunk that carries content (function call, thinking delta or
\* non-empty text) or a finish_reason
ConsumesTrailing(c) ==
    /\ c.choices = "array"
    /\ IsFunctionCall(c) \/ IsThinking(c) \/ IsText(c) \/ c.finish_reason # Absent

\* `evs` holds the standalone empty thinking block of `sig`, with nothing
\* before it but the closing of the block that was open
EmitsSignatureBlock(evs, sig) ==
    \E p \in 0..(Len(evs) - 4) :
        /\ SubSeq(evs, p + 1, p + 4) = SignatureBlock(evs[p + 1].index, sig)
        /\ \A i \in 1..p : \/ evs[i].event = "content_block_stop"
                           \/ evs[i].type = "signature_delta"

\* C6: a chunk with empty text, thought not true and a thoughtSignature
\* buffers its signature and emits nothing; every buffered signature becomes
\* one standalone empty thinking block (start, empty thinking_delta,
\* signature_delta, stop): it leaves the buffer only by being emitted, it is
\* emitted when the next chunk with content or with a finish_reason is
\* processed, before that chunk's own events, and it stays buffered otherwise.
C6_TrailingSignatureBlock ==
    [][ ProcessChunkStep =>
          /\ (IsMarker(chunk') /\ chunk'.finish_reason = Absent
                /\ trailing_signature = Absent)
               => (trailing_signature' = chunk'.thoughtSignature /\ events' = << >>)
          /\ (trailing_signature # Absent /\ ConsumesTrailing(chunk'))
               => /\ EmitsSignatureBlock(events', trailing_signature)
                  /\ trailing_signature' =
                        IF IsMarker(chunk') THEN chunk'.thoughtSignature ELSE Absent
          /\ (trailing_signature # Absent /\ ~ConsumesTrailing(chunk'))
               => \/ trailing_signature' = trailing_signature
                  \/ EmitsSignatureBlock(events', trailing_signature)
      ]_vars

\* a well-formed chunk with non-empty text, thought not true and a signature
IsTextWithSignature(c) ==
    c.choices = "array" /\ IsText(c) /\ c.thoughtSignature # Absent

\* the three events of a complete text block
TextBlock(index, text) ==
    << BlockStart(index, "text"), BlockDelta(index, "text_delta", text), BlockStop(index) >>

\* C7: a chunk with non-empty text, thought not true and a thoughtSignature
\* first closes the open block (and the buffered trailing signature's block),
\* then emits a complete text block at index k and a complete empty thinking
\* block with the signature at index k + 1, followed by nothing but the
\* message events of a finish_reason, and leaves current_type = None and
\* block_index = k + 2.
C7_TextWithSignatureSplits ==
    [][ (ProcessChunkStep /\ IsTextWithSignature(chunk')) =>
          LET evs == events'
              k == block_index + (IF current_type # "None" THEN 1 ELSE 0)
                     + (IF trailing_signature # Absent THEN 1 ELSE 0)
              p == Cardinality({ i \in DOMAIN evs : evs[i].index \in 0..(k - 1) })
          IN  /\ \A i \in 1..p : evs[i].index \in 0..(k - 1)
              /\ current_type # "None" =>
                    \E i \in 1..p : evs[i] = BlockStop(block_index)
              /\ Len(evs) >= p + 7
              /\ SubSeq(evs, p + 1, p + 7) =
                    TextBlock(k, chunk'.content)
                      \o SignatureBlock(k + 1, chunk'.thoughtSignature)
              /\ \A i \in (p + 8)..Len(evs) :
                    evs[i].event \in {"message_delta", "message_stop"}
              /\ current_type' = "None"
              /\ block_index' = k + 2
      ]_vars

\* C7 witness: a text with signature arrived while a block was open
C7_Witness ==
    /\ IsTextWithSignature(chunk)
    /\ Len(events) >= 8
    /\ events[1].event = "content_block_stop"
    /\ events[2] = BlockStart(block_index - 2, "text")

\* C8: processing a well-formed chunk that carries a finish_reason closes
\* any open block, drains the buffered trailing signature and emits
\* message_delta followed by message_stop, whatever the chunk's delta.
C8_FinishReasonHandled ==
    [][ (ProcessChunkStep /\ chunk'.choices = "array" /\ chunk'.finish_reason # Absent) =>
          /\ current_type' = "None"
          /\ trailing_signature' = Absent
          /\ Len(events') >= 2
          /\ events'[Len(events') - 1].event = "message_delta"
          /\ events'[Len(events')] = MessageStop
      ]_vars

\* C9: once message_stop was sent the converter is terminal: it stays with
\* current_type = None and message_stop_sent = true, and a process_chunk call
\* emits no events.
C9_TerminalAfterFinish ==
    [][ (ProcessChunkStep /\ message_stop_sent) =>
          /\ events' = << >>
          /\ current_type' = "None"
          /\ message_stop_sent'
      ]_vars

\* C10: a pending signature is held only while a thinking block is open.
C10_PendingOnlyWhileThinking ==
    pending_signature # Absent => current_type = "Thinking"

\* a well-formed chunk whose delta carries a functionCall
IsFunctionCallChunk(c) == c.choices = "array" /\ IsFunctionCall(c)

\* C11: a chunk carrying a functionCall closes the open block and emits the
\* buffered trailing signature as a standalone block (all at indices below
\* k), then emits content_block_start of a tool_use block at index k (id of
\* the call or generated from the name, name, input {}, the chunk's
\* signature) followed by exactly one input_json_delta holding the whole
\* args, sets used_tool and leaves current_type = ToolUse; after another
\* tool_use block the new one has the next index.
C11_FunctionCallOpensToolUse ==
    [][ (ProcessChunkStep /\ IsFunctionCallChunk(chunk')) =>
          LET evs == events'
              fc == chunk'.functionCall
              k == block_index + (IF current_type # "None" THEN 1 ELSE 0)
                     + (IF trailing_signature # Absent THEN 1 ELSE 0)
              p == Len(evs) - 2
              closing == IF current_type # "None" THEN 1 ELSE 0
          IN  /\ p >= 0
              /\ \A i \in 1..p : evs[i].index \in 0..(k - 1)
              /\ current_type # "None" =>
                    \E i \in 1..p : evs[i] = BlockStop(block_index)
              /\ trailing_signature # Absent =>
                    /\ p >= 4
                    /\ SubSeq(evs, p - 3, p) =
                          SignatureBlock(block_index + closing, trailing_signature)
                    /\ trailing_signature' = Absent
              /\ evs[p + 1].event = "content_block_start"
              /\ evs[p + 1].index = k
              /\ evs[p + 1].type = "tool_use"
              /\ evs[p + 1].value = "{}"
              /\ evs[p + 1].name = fc.name
              /\ evs[p + 1].id \in
                    IF fc.id # Absent THEN {fc.id}
                    ELSE { fc.name \o "-" \o u : u \in Uuids }
              /\ evs[p + 1].signature = chunk'.thoughtSignature
              /\ evs[p + 2] = BlockDelta(k, "input_json_delta", fc.args)
              /\ Cardinality({ i \in DOMAIN evs : evs[i].type = "input_json_delta" }) = 1
              /\ used_tool'
              /\ current_type' = "ToolUse"
              /\ block_index' = k
              /\ (current_type = "ToolUse" /\ trailing_signature = Absent) =>
                    evs = << BlockStop(block_index), evs[p + 1], evs[p + 2] >>
      ]_vars

\* C11 witness: a second function call in a row opened the tool_use block
\* of index 1 with a generated id, after closing block 0
C11_Witness ==
    /\ IsFunctionCallChunk(chunk)
    /\ chunk.functionCall.id = Absent
    /\ Len(events) = 3
    /\ events[1] = BlockStop(0)
    /\ events[2].type = "tool_use"
    /\ events[2].index = 1
    /\ events[3].type = "input_json_delta"
    /\ seen.tool_use_opened
    /\ current_type = "ToolUse"

\* a well-formed chunk taking the thinking branch, or the text branch
IsThinkingChunk(c) == c.choices = "array" /\ IsThinking(c)
IsTextChunk(c) == c.choices = "array" /\ IsText(c)

\* the block a delta event of `evs` at position i belongs to was started
\* with type `type`: by an earlier start in `evs`, or before the call
StartedAs(evs, i, type) ==
    LET starts == { j \in 1..(i - 1) :
                      evs[j].event = "content_block_start" /\ evs[j].index = evs[i].index }
    IN  IF starts # {}
        THEN \A j \in starts : evs[j].type = type
        ELSE seen.block_started /\ seen.open_index = evs[i].index /\ seen.open_type = type

\* C12: a thinking or text delta that arrives while a tool_use block is open
\* closes that block first; every thinking_delta carries the index of a
\* block started as thinking and every text_delta the index of a block
\* started as text.
C12_DeltaInBlockOfItsKind ==
    [][ (ProcessChunkStep /\ (IsThinkingChunk(chunk') \/ IsTextChunk(chunk'))) =>
          /\ current_type = "ToolUse" =>
                /\ events' # << >>
                /\ events'[1] = BlockStop(block_index)
          /\ \A i \in DOMAIN events' :
                /\ events'[i].type = "thinking_delta" => StartedAs(events', i, "thinking")
                /\ events'[i].type = "text_delta" => StartedAs(events', i, "text")
      ]_vars

\* C13: a malformed chunk (choices missing, not an array, or empty) makes
\* process_chunk return no events and leaves every field of the converter
\* unchanged.
C13_MalformedChunkIgnored ==
    [][ (ProcessChunkStep /\ chunk' \in MalformedChunks) =>
          /\ events' = << >>
          /\ UNCHANGED convVars
      ]_vars

\* C13 witness: a malformed chunk arrived while a tool_use block was open
\* and a trailing signature was buffered
C13_Witness ==
    /\ chunk \in MalformedChunks
    /\ current_type = "ToolUse"
    /\ trailing_signature # Absent
    /\ events = << >>

(***************************************************************************)
(* The token manager and the token refresher as concurrent tasks.  A task  *)
(* takes one step per access to the shared map, the counter or the account *)
(* files; the result of a collaborator's call, which only the task itself  *)
(* sees, arrives in the step that first uses it, and so does the clock's   *)
(* reading.  A task that returned is idle again.                           *)
(***************************************************************************)
\* the stream converter and the parts outside the token manager are not
\* part of these steps
StreamUnchanged == UNCHANGED << convVars, chunk, events, seen, otherVars >>

\* the accounts directory loaded at start-up, the clock at its first instant
TokenInit ==
    /\ StreamInit
    /\ \E dir \in AccountStores : TokenManagerNew(dir)
    /\ SignatureManagerNew
    /\ NoPureCall

\* load_accounts, called once before the proxy serves
LoadAccounts ==
    /\ len(tokens) = 0
    /\ tokens' = load_accounts(files)
    /\ UNCHANGED << current_index, files, clock, requests, refresher, updater >>
    /\ StreamUnchanged

\* time passes
ClockAdvance ==
    /\ \E t \in Instants : t > clock /\ clock' = t
    /\ UNCHANGED << tokens, current_index, files, requests, refresher, updater >>
    /\ StreamUnchanged

\* get_token lines 181 and 220: a call whose clone is `token` resolves the
\* project id, or returns the clone and leaves the task idle
AfterRefresh(r) ==
    IF r.token.project_id = Absent THEN [r EXCEPT !.pc = "resolve"] ELSE IdleRequest

\* get_token lines 138-143: the rotation counter is read and incremented;
\* None is returned when no account is loaded
GetTokenStart(p) ==
    /\ requests[p].pc = "idle"
    /\ current_index < MaxCalls
    /\ IF len(tokens) = 0
       THEN UNCHANGED << current_index, requests >>
       ELSE /\ current_index' = fetch_add(current_index)
            /\ requests' = [requests EXCEPT ![p] =
                              [IdleRequest EXCEPT !.pc = "clone",
                                                  !.ticket = current_index,
                                                  !.idx = current_index % len(tokens)]]
    /\ UNCHANGED << tokens, files, clock, refresher, updater >>
    /\ StreamUnchanged

\* get_token lines 144-148: the selected record is cloned, the clock read
\* and the expiry checked
GetTokenClone(p) ==
    /\ requests[p].pc = "clone"
    /\ LET token == nth(tokens, requests[p].idx)
           r == [requests[p] EXCEPT !.token = token]
       IN  requests' = [requests EXCEPT ![p] =
                          IF token = NoToken THEN IdleRequest
                          ELSE IF token_expiring(token, clock)
                          THEN [r EXCEPT !.now = clock, !.pc = "refresh"]
                          ELSE AfterRefresh(r)]
    /\ UNCHANGED << tokens, current_index, files, clock, refresher, updater >>
    /\ StreamUnchanged

\* get_token lines 152-164 and 173-176: the OAuth refresh returns; on
\* success the clone takes the response and save_refreshed_token writes the
\* account file (a failed write is only logged)
GetTokenRefresh(p) ==
    /\ requests[p].pc = "refresh"
    /\ \E result \in OAuthResults, written \in BOOLEAN :
          IF result.ok
          THEN /\ requests' = [requests EXCEPT ![p] =
                                 [@ EXCEPT !.token = refreshed(@, result.response,
                                                               requests[p].now),
                                           !.now = -1,
                                           !.pc = "store_token"]]
               /\ files' = IF written
                           THEN save_refreshed_token(files, requests[p].token.account_id,
                                                     result.response, clock)
                           ELSE files
          ELSE /\ requests' = [requests EXCEPT ![p] = AfterRefresh([@ EXCEPT !.now = -1])]
               /\ UNCHANGED files
    /\ UNCHANGED << tokens, current_index, clock, refresher, updater >>
    /\ StreamUnchanged

\* get_token lines 167-171: the record of the map is updated
GetTokenStoreToken(p) ==
    /\ requests[p].pc = "store_token"
    /\ tokens' = store_refreshed(tokens, requests[p].token)
    /\ requests' = [requests EXCEPT ![p] = AfterRefresh(@)]
    /\ UNCHANGED << current_index, files, clock, refresher, updater >>
    /\ StreamUnchanged

\* get_token lines 184-194 and 201-210: the project resolver returns, a
\* placeholder id is generated when it failed, and save_project_id writes
\* the account file (a failed write is only logged)
GetTokenResolve(p) ==
    /\ requests[p].pc = "resolve"
    /\ \E result \in ProjectResults, mock_id \in MockProjectIds, written \in BOOLEAN :
          LET project_id == IF result = Err THEN mock_id ELSE result
          IN  /\ requests' = [requests EXCEPT ![p].token.project_id = project_id,
                                              ![p].pc = "store_project"]
              /\ files' = IF written
                          THEN save_project_id(files, requests[p].token.account_id,
                                               project_id)
                          ELSE files
    /\ UNCHANGED << tokens, current_index, clock, refresher, updater >>
    /\ StreamUnchanged

\* get_token lines 197-199, 213-215 and 220: the record of the map takes the
\* project id and the clone is returned
GetTokenStoreProject(p) ==
    /\ requests[p].pc = "store_project"
    /\ tokens' = store_project_id(tokens, requests[p].token.account_id,
                                  requests[p].token.project_id)
    /\ requests' = [requests EXCEPT ![p] = IdleRequest]
    /\ UNCHANGED << current_index, files, clock, refresher, updater >>
    /\ StreamUnchanged

\* token_refresher.rs:67-73: the next round of the loop polls its select!
\* with a sleep that has just begun: the task breaks out of the loop if the
\* token is cancelled, and sleeps otherwise
LoopHead == IF cancel_token THEN "exited" ELSE "sleeping"

\* token_refresher.rs:77-82: after refresh_all_accounts the task calls
\* cleanup_expired if it was given a signature manager, then goes round
PassEnd == IF signature_manager = "None" THEN LoopHead ELSE "cleanup"

\* a wrong refresh_all_accounts: the pass ends after one token
NextToken_ends_pass(r) ==
    [r EXCEPT !.tokens = << >>, !.response = NoResponse, !.pc = PassEnd]

\* refresh_all_accounts: on to the next token of the snapshot, or to the
\* end of the pass after the last one
NextToken(r) ==
    LET rest == Tail(r.tokens)
    IN  [r EXCEPT !.tokens = rest,
                  !.response = NoResponse,
                  !.pc = IF rest = << >> THEN PassEnd ELSE "check"]

\* refresh_all_accounts lines 110-115: the snapshot of the tokens
TakeSnapshot(r) ==
    LET snapshot == get_all_tokens(tokens)
    IN  [r EXCEPT !.tokens = snapshot,
                  !.pc = IF snapshot = << >> THEN PassEnd ELSE "check"]

\* the sleep of the refresher's loop ends: refresh_all_accounts takes its
\* snapshot (lines 74-75 and 110-115)
RefresherTick ==
    /\ refresher.pc = "sleeping"
    /\ refresher' = TakeSnapshot(refresher)
    /\ UNCHANGED << tokens, current_index, files, clock, requests, updater >>
    /\ StreamUnchanged

\* refresh_all_accounts line 120: should_refresh of the next token
RefresherCheck ==
    /\ refresher.pc = "check"
    /\ refresher' = IF should_refresh(Head(refresher.tokens), refresh_ahead_secs, clock)
                    THEN [refresher EXCEPT !.pc = "refresh"]
                    ELSE NextToken(refresher)
    /\ UNCHANGED << tokens, current_index, files, clock, requests, updater >>
    /\ StreamUnchanged

\* refresh_all_accounts lines 126-152: refresh_account returns; on success
\* update_token makes its in-memory update (lines 288-297)
RefresherRefresh ==
    /\ refresher.pc = "refresh"
    /\ \E result \in OAuthResults :
          LET account_id == Head(refresher.tokens).account_id
          IN  IF result.ok /\ account_id \in DOMAIN tokens
              THEN /\ tokens' = update_entry(tokens, account_id, result.response, clock)
                   /\ refresher' = [refresher EXCEPT !.response = result.response,
                                                     !.pc = "save"]
              ELSE /\ refresher' = NextToken(refresher)
                   /\ UNCHANGED tokens
    /\ UNCHANGED << current_index, files, clock, requests, updater >>
    /\ StreamUnchanged

\* update_token line 300, called by the refresher: save_refreshed_token
RefresherSave ==
    /\ refresher.pc = "save"
    /\ \E written \in BOOLEAN :
          files' = IF written
                   THEN save_refreshed_token(files, Head(refresher.tokens).account_id,
                                             refresher.response, clock)
                   ELSE files
    /\ refresher' = NextToken(refresher)
    /\ UNCHANGED << tokens, current_index, clock, requests, updater >>
    /\ StreamUnchanged

\* update_token lines 288-297, called for an account the map does not
\* hold: Err is returned (the refresher makes the calls for the accounts
\* the map holds)
UpdateToken(account_id, response) ==
    /\ account_id \notin DOMAIN tokens
    /\ updater' = [updater EXCEPT !.pc = "done",
                                  !.account_id = account_id,
                                  !.response = response,
                                  !.result = Err]
    /\ UNCHANGED << tokens, current_index, files, clock, requests, refresher >>
    /\ StreamUnchanged

TokenNext ==
    \/ LoadAccounts
    \/ ClockAdvance
    \/ \E p \in Requests : GetTokenStart(p)
    \/ \E p \in Requests : GetTokenClone(p)
    \/ \E p \in Requests : GetTokenRefresh(p)
    \/ \E p \in Requests : GetTokenStoreToken(p)
    \/ \E p \in Requests : GetTokenResolve(p)
    \/ \E p \in Requests : GetTokenStoreProject(p)
    \/ RefresherTick
    \/ RefresherCheck
    \/ RefresherRefresh
    \/ RefresherSave
    \/ \E a \in DOMAIN files \cup {UnknownId}, r \in TokenResponses : UpdateToken(a, r)

TokenSpec == TokenInit /\ [][TokenNext]_vars

(***************************************************************************)
(* Properties of the token manager and the token refresher.                *)
(***************************************************************************)
\* the get_token call of task p is running
InFlight(p) == requests[p].pc # "idle"

\* the get_token call of task p has cloned its record
Cloned(p) == requests[p].pc \notin {"idle", "clone"}

\* the record at position idx of the loaded accounts
Selected(idx) == tokens[AccountIds[idx + 1]]

\* the tickets (counter values) and indices of the running get_token calls:
\* each is below the counter, the index is the ticket mod N, a cloned record
\* is the one at that index, no two calls hold the same ticket, and
\* successive tickets hold successive indices mod N
RotationInvariant ==
    /\ \A p \in Requests : InFlight(p) =>
          /\ requests[p].ticket \in 0..(current_index - 1)
          /\ requests[p].idx = requests[p].ticket % len(tokens)
          /\ Cloned(p) => requests[p].token.account_id = AccountIds[requests[p].idx + 1]
    /\ \A p, q \in Requests : (p # q /\ InFlight(p) /\ InFlight(q)) =>
          /\ requests[p].ticket # requests[q].ticket
          /\ requests[q].ticket = requests[p].ticket + 1 =>
                requests[q].idx = (requests[p].idx + 1) % len(tokens)

\* C14: with N >= 1 accounts loaded, a get_token call takes the counter's
\* value as its ticket and leaves the counter one higher in the same step,
\* and selects the record at position ticket mod N; concurrent calls never
\* hold the same ticket, and calls with successive tickets select successive
\* positions mod N (so N consecutive calls select every account once).
C14_RoundRobin ==
    [][ /\ \A p \in Requests :
              (requests[p].pc = "idle" /\ requests'[p].pc = "clone") =>
                 /\ requests'[p].ticket = current_index
                 /\ current_index' = current_index + 1
        /\ RotationInvariant'
      ]_vars

\* C14 witness: of two accounts, two concurrent calls hold the tickets 0 and
\* 1 and have cloned the first and the second record
C14_Witness ==
    /\ len(tokens) = 2
    /\ requests["r1"].ticket = 0
    /\ requests["r2"].ticket = 1
    /\ Cloned("r1") /\ requests["r1"].token.account_id = AccountIds[1]
    /\ Cloned("r2") /\ requests["r2"].token.account_id = AccountIds[2]

\* C15: the refresh of one account is serialized: no two get_token calls,
\* and no get_token call and refresher tick, have an OAuth refresh of the
\* same account under way at once.
C15_RefreshSerialized ==
    /\ \A p, q \in Requests :
          (p # q /\ requests[p].pc = "refresh" /\ requests[q].pc = "refresh") =>
             requests[p].token.account_id # requests[q].token.account_id
    /\ \A p \in Requests :
          (requests[p].pc = "refresh" /\ refresher.pc = "refresh") =>
             requests[p].token.account_id # Head(refresher.tokens).account_id

\* C16: get_token calls the OAuth refresh for the selected record exactly
\* when expiryTimestamp - now < 300 (not when 300 seconds remain); after a
\* successful refresh the clone, and then the record of the map, carry the
\* new access token and expiryTimestamp = now + expires_in.
C16_RefreshThreshold ==
    [][ \A p \in Requests :
          /\ (requests[p].pc = "clone" /\ requests'[p] # requests[p]) =>
                ( requests'[p].pc = "refresh"
                    <=> Selected(requests[p].idx).timestamp - clock < 300 )
          /\ (requests[p].pc = "refresh" /\ requests'[p].pc = "store_token") =>
                /\ requests'[p].token.access_token
                      \in { r.access_token : r \in TokenResponses }
                /\ requests'[p].token.timestamp
                      = requests[p].now + requests'[p].token.expires_in
          /\ (requests[p].pc = "store_token" /\ requests'[p] # requests[p]) =>
                LET a == requests[p].token.account_id
                IN  /\ tokens'[a].access_token = requests[p].token.access_token
                    /\ tokens'[a].timestamp = requests[p].token.timestamp
      ]_vars

\* the step in which the get_token call of task p returns, and what it returns
Returns(p) == requests[p].pc # "idle" /\ requests'[p].pc = "idle"
ReturnedToken(p) ==
    IF requests[p].pc = "clone" THEN Selected(requests[p].idx) ELSE requests[p].token

\* C17: every record get_token returns has a project id; the resolver is
\* called only for a clone without project id; the resolver's id, or a
\* placeholder when it failed, is put into the clone and then into the
\* record of the map; and a record that has a project id keeps having one,
\* so a later get_token does not call the resolver for it.
C17_ProjectIdResolved ==
    [][ /\ \A p \in Requests :
              /\ Returns(p) => ReturnedToken(p).project_id # Absent
              /\ requests'[p].pc = "resolve" => requests'[p].token.project_id = Absent
              /\ (requests[p].pc = "clone" /\ requests'[p] # requests[p]
                    /\ Selected(requests[p].idx).project_id # Absent) =>
                    requests'[p].pc # "resolve"
              /\ (requests[p].pc = "resolve" /\ requests'[p] # requests[p]) =>
                    /\ requests'[p].pc = "store_project"
                    /\ requests'[p].token.project_id \in ProjectIds \cup MockProjectIds
              /\ (requests[p].pc = "store_project" /\ requests'[p] # requests[p]) =>
                    /\ Returns(p)
                    /\ tokens'[requests[p].token.account_id].project_id
                          = requests[p].token.project_id
        /\ \A a \in DOMAIN tokens :
              tokens[a].project_id # Absent => tokens'[a].project_id # Absent
      ]_vars

\* C17 witness: the only account was loaded without project id, the resolver
\* failed, the placeholder is in the map, and both calls have returned
C17_Witness ==
    /\ DOMAIN tokens = {AccountIds[1]}
    /\ tokens[AccountIds[1]].project_id \in MockProjectIds
    /\ current_index = 2
    /\ \A p \in Requests : ~InFlight(p)

\* C18: once the record of an account has a project id, no step changes it.
C18_ProjectIdSetOnce ==
    [][ \A a \in DOMAIN tokens :
          tokens[a].project_id # Absent => tokens'[a].project_id = tokens[a].project_id
      ]_vars

\* C19: update_token on a known account (the refresher's call) replaces
\* access_token, expires_in and timestamp (= now + expires_in) of the record
\* in one step and leaves its other fields and the other records unchanged;
\* the file write that follows, failed or not, leaves the map unchanged; on
\* an unknown account update_token returns Err and changes no record.
C19_UpdateToken ==
    [][ /\ (refresher.pc = "refresh" /\ refresher'.pc = "save") =>
              LET a == Head(refresher.tokens).account_id
                  r == refresher'.response
              IN  /\ r \in TokenResponses
                  /\ tokens'[a] = [ account_id |-> tokens[a].account_id,
                                    access_token |-> r.access_token,
                                    refresh_token |-> tokens[a].refresh_token,
                                    expires_in |-> r.expires_in,
                                    timestamp |-> clock + r.expires_in,
                                    project_id |-> tokens[a].project_id,
                                    session_id |-> tokens[a].session_id ]
                  /\ \A b \in DOMAIN tokens \ {a} : tokens'[b] = tokens[b]
        /\ (refresher.pc = "save" /\ refresher' # refresher) => tokens' = tokens
        /\ updater' # updater =>
              /\ updater'.account_id \notin DOMAIN tokens
              /\ updater'.result = Err
              /\ tokens' = tokens
      ]_vars

\* C19 witness: no get_token call was made, the refresher updated the first
\* account's record, the write of its file failed, and an update_token call
\* for an unknown account returned Err
C19_Witness ==
    /\ current_index = 0
    /\ refresher.pc = "sleeping"
    /\ AccountIds[1] \in DOMAIN tokens
    /\ tokens[AccountIds[1]].access_token = "at1"
    /\ files[AccountIds[1]].access_token = "at0"
    /\ updater.account_id = UnknownId
    /\ updater.result = Err

\* C20: on a tick, for each record of the snapshot the OAuth refresh is
\* called if and only if now + refresh_ahead >= expiryTimestamp; a
\* successful refresh is pushed into the map by update_token; a record not
\* yet due is passed over and nothing is modified.
C20_RefreshWhenDue ==
    [][ /\ (refresher'.pc = "refresh" /\ refresher.pc # "refresh") => refresher.pc = "check"
        /\ (refresher.pc = "check" /\ refresher' # refresher) =>
              LET due == clock + 600 >= Head(refresher.tokens).timestamp
              IN  /\ due <=> refresher'.pc = "refresh"
                  /\ due => refresher'.tokens = refresher.tokens
                  /\ ~due => /\ refresher'.tokens = Tail(refresher.tokens)
                             /\ UNCHANGED << tokens, files >>
        /\ (refresher.pc = "refresh" /\ refresher' # refresher) =>
              LET a == Head(refresher.tokens).account_id
              IN  \/ /\ refresher'.pc = "save"
                     /\ refresher'.response \in TokenResponses
                     /\ tokens'[a].access_token = refresher'.response.access_token
                     /\ tokens'[a].timestamp = clock + refresher'.response.expires_in
                  \/ /\ refresher'.tokens = Tail(refresher.tokens)
                     /\ UNCHANGED << tokens, files >>
      ]_vars

\* C20 witness: no get_token call was made; at 300 the refresher has
\* refreshed the first account (expiry 600) and passed over the second
\* (expiry 901)
C20_Witness ==
    /\ current_index = 0
    /\ clock = 300
    /\ refresher.pc = "sleeping"
    /\ len(tokens) = 2
    /\ tokens[AccountIds[1]].access_token = "at1"
    /\ tokens[AccountIds[2]].timestamp = 901

(***************************************************************************)
(* The signature cache: each call is one step.                             *)
(***************************************************************************)
\* the token manager, its tasks and the loop are not part of these steps
CacheOnly ==
    UNCHANGED << convVars, chunk, events, seen, tokenVars, loopVars, pureVars >>

\* a manager with defaults, nothing stored, the clock at its first instant
SignatureInit ==
    StreamInit /\ TokenManagerNew(EmptyMap) /\ SignatureManagerNew /\ NoPureCall

\* time passes, up to the instants at which the entries stored at Instants
\* reach and pass the TTL
TimePasses ==
    /\ \E t \in Instants \cup {u + expiry_secs : u \in Instants} :
          t > clock /\ clock' = t
    /\ UNCHANGED << tokens, current_index, files, requests, refresher, updater >>
    /\ StreamUnchanged

\* store_tool_signature(tool_use_id, signature)
StoreToolSignature(tool_use_id, signature) ==
    /\ tool_signatures' = store_tool_signature(tool_signatures, tool_use_id, signature, clock)
    /\ last_call' = [op |-> "store", key |-> tool_use_id,
                     signature |-> signature, result |-> Absent,
                     removed_count |-> 0]
    /\ UNCHANGED pending
    /\ CacheOnly

\* get_tool_signature(tool_use_id)
GetToolSignature(tool_use_id) ==
    /\ LET r == get_tool_signature(tool_signatures, tool_use_id, expiry_secs, clock)
       IN  /\ tool_signatures' = r.map
           /\ last_call' = [op |-> "get", key |-> tool_use_id,
                            signature |-> Absent, result |-> r.result,
                            removed_count |-> 0]
    /\ UNCHANGED pending
    /\ CacheOnly

\* cleanup_expired()
CleanupExpired ==
    /\ LET r == cleanup_expired(tool_signatures, expiry_secs, clock)
       IN  /\ tool_signatures' = r.map
           /\ last_call' = [op |-> "cleanup_expired", key |-> Absent,
                            signature |-> Absent, result |-> Absent,
                            removed_count |-> r.result]
    /\ UNCHANGED pending
    /\ CacheOnly

SignatureSpec ==
    SignatureInit
    /\ [][ \/ TimePasses
           \/ \E k \in ToolUseIds, sig \in Signatures : StoreToolSignature(k, sig)
           \/ \E k \in ToolUseIds : GetToolSignature(k)
           \/ CleanupExpired ]_vars

(***************************************************************************)
(* The loop of the refresher's task, with its cancellation.                *)
(***************************************************************************)
\* the task was spawned by start (as start_auto_refresh does), which hands
\* it no signature manager, or by start_with_signature_manager with one
RefresherInit ==
    /\ StreamInit
    /\ \E dir \in AccountStores : TokenManagerNew(dir)
    /\ tool_signatures = NoSignatures
    /\ last_call = NoCacheCall
    /\ pending = NoPending
    /\ cancel_token = FALSE
    /\ sleep_elapsed = FALSE
    /\ signature_manager \in {"None", "Some"}
    /\ NoPureCall

\* TokenRefresher::stop: cancel_token.cancel()
Stop ==
    /\ ~cancel_token
    /\ cancel_token' = TRUE
    /\ UNCHANGED << sleep_elapsed, signature_manager, sigVars, tokenVars >>
    /\ UNCHANGED << convVars, chunk, events, seen, pureVars >>

\* the deadline of the pending tokio::time::sleep is reached
SleepElapses ==
    /\ refresher.pc = "sleeping"
    /\ ~sleep_elapsed
    /\ sleep_elapsed' = TRUE
    /\ UNCHANGED << cancel_token, signature_manager, sigVars, tokenVars >>
    /\ UNCHANGED << convVars, chunk, events, seen, pureVars >>

\* select! takes the branch of cancel_token.cancelled(): break
LoopBreak ==
    /\ refresher.pc = "sleeping"
    /\ cancel_token
    /\ refresher' = [refresher EXCEPT !.pc = "exited"]
    /\ UNCHANGED << tokens, current_index, files, clock, requests, updater >>
    /\ StreamUnchanged

\* select! takes the branch of the sleep: a tick, refresh_all_accounts
\* starts.  select! polls its branches in random order, so with both ready
\* either one is taken
LoopTick ==
    /\ refresher.pc = "sleeping"
    /\ sleep_elapsed
    /\ sleep_elapsed' = FALSE
    /\ refresher' = TakeSnapshot(refresher)
    /\ UNCHANGED << cancel_token, signature_manager, sigVars >>
    /\ UNCHANGED << tokens, current_index, files, clock, requests, updater >>
    /\ UNCHANGED << convVars, chunk, events, seen, pureVars >>

\* token_refresher.rs:78-80: sig_manager.cleanup_expired(), then the next
\* round of the loop
RefresherCleanup ==
    /\ refresher.pc = "cleanup"
    /\ LET r == cleanup_expired(tool_signatures, expiry_secs, clock)
       IN  /\ tool_signatures' = r.map
           /\ last_call' = [op |-> "cleanup_expired", key |-> Absent,
                            signature |-> Absent, result |-> Absent,
                            removed_count |-> r.result]
    /\ refresher' = [refresher EXCEPT !.pc = LoopHead]
    /\ UNCHANGED pending
    /\ UNCHANGED << tokens, current_index, files, clock, requests, updater >>
    /\ UNCHANGED << loopVars, convVars, chunk, events, seen, pureVars >>

RefresherNext ==
    \/ LoadAccounts
    \/ TimePasses
    \/ Stop
    \/ SleepElapses
    \/ LoopBreak
    \/ LoopTick
    \/ RefresherCheck
    \/ RefresherRefresh
    \/ RefresherSave
    \/ RefresherCleanup
    \/ StoreToolSignature(CHOOSE k \in ToolUseIds : TRUE, CHOOSE sig \in Signatures : TRUE)

RefresherSpec == RefresherInit /\ [][RefresherNext]_vars

(***************************************************************************)
(* Properties of the refresher's loop and of the signature cache.          *)
(***************************************************************************)
\* the step is a tick: the select! of the loop took the branch of the sleep
TickStep == sleep_elapsed /\ ~sleep_elapsed'

\* C21: once stop() has cancelled the token the task starts no tick any
\* more, and it leaves the loop only between two passes: a pass that is
\* running (its OAuth call and update_token included) handles every token
\* of its snapshot, and makes its call of cleanup_expired, before the exit.
C21_NoTickAfterStop ==
    [][ /\ cancel_token => ~TickStep
        /\ (refresher'.pc = "exited" /\ refresher.pc # "exited") =>
              /\ refresher'.tokens = << >>
              /\ refresher.pc \in {"check", "refresh", "save"} =>
                    /\ Tail(refresher.tokens) = << >>
                    /\ signature_manager = "None" ]_vars

\* the step ends a round of the loop that made a pass: the task sleeps
\* again or has left the loop
PassEndStep ==
    /\ refresher'.pc \in {"sleeping", "exited"}
    /\ refresher.pc \notin {"sleeping", "exited"} \/ TickStep

\* C22: on every tick, whichever way the refresher was started, the pass
\* over the tokens is followed by a call of cleanup_expired before the
\* task sleeps again.
C22_CleanupOnEveryTick ==
    [][ PassEndStep => /\ refresher.pc = "cleanup"
                       /\ last_call'.op = "cleanup_expired" ]_vars

\* the step is a call on the cache
CacheStep == sigVars' # sigVars

\* the age of the entry under key k does not exceed the TTL
Live(m, k) == k \in DOMAIN m /\ clock - m[k].created_at <= expiry_secs

\* C25: store(k, s) leaves under k the entry (s, now), whatever was there;
\* get(k) returns the stored signature iff an entry is there and its age
\* does not exceed the TTL; a get on an older entry returns absent and
\* removes the entry; a get on an absent key returns absent and changes
\* nothing; store and get on k leave the entries under other keys alone.
C25_StoreAndGet ==
    [][ CacheStep =>
          LET m == tool_signatures
              m2 == tool_signatures'
              op == last_call'.op
              k == last_call'.key
              result == last_call'.result
          IN  /\ op = "store" =>
                    /\ k \in DOMAIN m2
                    /\ m2[k].signature = last_call'.signature
                    /\ m2[k].created_at = clock
              /\ op = "get" =>
                    /\ (result # Absent) <=> Live(m, k)
                    /\ Live(m, k) => result = m[k].signature /\ m2 = m
                    /\ (k \in DOMAIN m /\ ~Live(m, k)) =>
                          result = Absent /\ k \notin DOMAIN m2
                    /\ k \notin DOMAIN m => result = Absent /\ m2 = m
              /\ op \in {"store", "get"} =>
                    /\ DOMAIN m2 \ {k} = DOMAIN m \ {k}
                    /\ \A j \in DOMAIN m \ {k} : m2[j] = m[j] ]_vars

\* a get returned the signature of an entry whose age is exactly the TTL,
\* with an entry under the other key
C25_Witness ==
    /\ last_call.op = "get"
    /\ last_call.result # Absent
    /\ last_call.key \in DOMAIN tool_signatures
    /\ clock - tool_signatures[last_call.key].created_at = expiry_secs
    /\ DOMAIN tool_signatures = ToolUseIds

\* C26: cleanup_expired, no other call on the cache running, removes
\* exactly the entries whose age exceeds the TTL, leaves the others as they
\* were and returns the number of entries it removed; no expired entry is
\* left.
C26_CleanupExpired ==
    [][ (CacheStep /\ last_call'.op = "cleanup_expired") =>
          LET m == tool_signatures
              m2 == tool_signatures'
          IN  /\ DOMAIN m2 = {k \in DOMAIN m : Live(m, k)}
              /\ \A k \in DOMAIN m2 : m2[k] = m[k]
              /\ last_call'.removed_count = Cardinality(DOMAIN m \ DOMAIN m2)
              /\ \A k \in DOMAIN m2 : clock - m2[k].created_at <= expiry_secs ]_vars

\* a cleanup removed one entry and left the other, whose age is the TTL
C26_Witness ==
    /\ last_call.op = "cleanup_expired"
    /\ last_call.removed_count = 1
    /\ \E k \in DOMAIN tool_signatures :
          clock - tool_signatures[k].created_at = expiry_secs

(***************************************************************************)
(* The retry policy (retry_handler.rs).  A string is the sequence of its   *)
(* characters.                                                             *)
(***************************************************************************)
\* the longest duration string of the model
MaxLen == 4

\* the characters of the duration strings: digits, the dot, the letters
\* of the units, white space and a letter of no unit
Chars == {"1", "5", ".", "m", "s", "h", " ", "x"}

DigitChars == << "0", "1", "2", "3", "4", "5", "6", "7", "8", "9" >>

\* the characters of the class [\d.]
NumChars == {DigitChars[i] : i \in 1..10} \cup {"."}

\* the strings handed to parse_duration_ms; the numbers of the model have
\* 32 bits, so a number has at most three digits in a row
DurationStrings ==
    { str \in UNION {[1..n -> Chars] : n \in 0..MaxLen} :
        \A i \in 1..(Len(str) - 3) :
           \E x \in i..(i + 3) : str[x] \notin NumChars \ {"."} }

\* the strings of duration_string_strategy (lines 334-349) and of the shapes
\* Nms, Ns, N.Fs, Nm, Nh, HhMmSs: N from 1, H to 23, M and S to 59
ValidDurations ==
    LET N == { << "1" >>, << "5" >>, << "1", "5" >>, << "9", "9" >> }
        F == { << "0" >>, << "5" >>, << "0", "0", "1" >>, << "9", "9", "9" >> }
        H == { << "0" >>, << "1" >>, << "2", "3" >> }
        M == { << "0" >>, << "5" >>, << "5", "9" >> }
    IN  { n \o unit : n \in N, unit \in { << "m", "s" >>, << "s" >>, << "m" >>, << "h" >> } }
        \cup { n \o << "." >> \o f \o << "s" >> : n \in N, f \in F }
        \cup { h \o << "h" >> \o m \o << "m" >> \o sec \o << "s" >> :
                  h \in H, m \in M, sec \in M }

\* Option<u64>
None == [some |-> FALSE, ms |-> 0]
Some(ms) == [some |-> TRUE, ms |-> ms]

\* str::trim
RECURSIVE trim(_)
trim(str) ==
    IF str = << >> THEN str
    ELSE IF Head(str) = " " THEN trim(Tail(str))
    ELSE IF str[Len(str)] = " " THEN trim(SubSeq(str, 1, Len(str) - 1))
    ELSE str

\* re.captures_iter for ([\d.]+)\s*(ms|s|m|h), from position i on: the
\* matches from left to right, none overlapping another
RECURSIVE captures_iter(_, _)
captures_iter(str, i) ==
    IF i > Len(str) THEN << >>
    ELSE IF str[i] \notin NumChars THEN captures_iter(str, i + 1)
    ELSE LET j == CHOOSE e \in i..Len(str) :
                     /\ \A x \in i..e : str[x] \in NumChars
                     /\ e = Len(str) \/ str[e + 1] \notin NumChars
             k == CHOOSE e \in (j + 1)..(Len(str) + 1) :
                     /\ \A x \in (j + 1)..(e - 1) : str[x] = " "
                     /\ e = Len(str) + 1 \/ str[e] # " "
             unit == IF k > Len(str) THEN ""
                     ELSE IF str[k] = "m" /\ k < Len(str) /\ str[k + 1] = "s" THEN "ms"
                     ELSE IF str[k] \in {"s", "m", "h"} THEN str[k]
                     ELSE ""
         IN  IF unit = "" THEN captures_iter(str, i + 1)
             ELSE << [number |-> SubSeq(str, i, j), unit |-> unit] >>
                  \o captures_iter(str, k + (IF unit = "ms" THEN 2 ELSE 1))

\* the number a run of digits writes
RECURSIVE DigitsValue(_)
DigitsValue(digits) ==
    IF digits = << >> THEN 0
    ELSE 10 * DigitsValue(SubSeq(digits, 1, Len(digits) - 1))
         + (CHOOSE d \in 0..9 : DigitChars[d + 1] = digits[Len(digits)])

\* a wrong parse: no number with a dot is a number
parse_f64_no_decimals(number) ==
    IF \A i \in 1..Len(number) : number[i] # "."
    THEN [ok |-> TRUE, whole |-> DigitsValue(number), thousandths |-> 0]
    ELSE [ok |-> FALSE, whole |-> 0, thousandths |-> 0]

\* str::parse::<f64> of a run of [\d.]: Err unless the run has a digit and
\* at most one dot; the value as its whole part and its thousandths (the
\* strings of the model have at most three decimals)
parse_f64(number) ==
    LET dots == {i \in 1..Len(number) : number[i] = "."}
        dot == IF dots = {} THEN Len(number) + 1 ELSE CHOOSE i \in dots : TRUE
        decimals == SubSeq(number, dot + 1, Len(number))
        padded == SubSeq(decimals \o << "0", "0", "0" >>, 1, 3)
    IN  IF Cardinality(dots) <= 1 /\ Len(number) > Cardinality(dots)
        THEN [ ok |-> TRUE,
               whole |-> DigitsValue(SubSeq(number, 1, dot - 1)),
               thousandths |-> DigitsValue(padded) ]
        ELSE [ok |-> FALSE, whole |-> 0, thousandths |-> 0]

\* lines 42-61: total_ms after the captures from the n-th on, as its whole
\* milliseconds and its thousandths of a millisecond
RECURSIVE total_ms(_, _)
total_ms(caps, n) ==
    IF n > Len(caps) THEN [whole |-> 0, thousandths |-> 0]
    ELSE LET rest == total_ms(caps, n + 1)
             value == parse_f64(caps[n].number)
             unit == caps[n].unit
         IN  IF ~value.ok THEN rest
             ELSE IF unit = "ms"
                  THEN [ whole |-> rest.whole + value.whole,
                         thousandths |-> rest.thousandths + value.thousandths ]
             ELSE IF unit = "s"
                  THEN [rest EXCEPT !.whole = @ + value.whole * 1000 + value.thousandths]
             ELSE IF unit = "m"
                  THEN [rest EXCEPT !.whole = @ + value.whole * 60 * 1000
                                                + value.thousandths * 60]
             ELSE [rest EXCEPT !.whole = @ + value.whole * 60 * 60 * 1000
                                           + value.thousandths * 60 * 60]

\* parse_duration_ms; f64::round rounds a half away from zero
parse_duration_ms(duration_str) ==
    IF duration_str = << >> THEN None
    ELSE IF trim(duration_str) = << >> THEN None
    ELSE LET caps == captures_iter(trim(duration_str), 1)
             total == total_ms(caps, 1)
         IN  IF caps = << >> THEN None
             ELSE Some(total.whole + (total.thousandths + 500) \div 1000)

\* a JSON field that is missing, or not a string
Missing == << Absent >>

\* the error texts: one that is not JSON, a JSON object without
\* error.details, and JSON objects whose error.details has up to two
\* entries with "@type", retryDelay and metadata.quotaResetDelay; the
\* delays are 5000 ms, 5001 ms, 1500 ms and one that is no duration
ErrorTexts ==
    LET delays == { << "5", "s" >>, << "5", "0", "0", "1", "m", "s" >>,
                    << "1", ".", "5", "s" >>, << "x" >>, Missing }
        details == [ type : {"type.googleapis.com/google.rpc.RetryInfo",
                             "type.googleapis.com/google.rpc.QuotaFailure"},
                     retryDelay : delays,
                     quotaResetDelay : delays ]
    IN  { [json |-> FALSE, has_details |-> FALSE, details |-> << >>],
          [json |-> TRUE, has_details |-> FALSE, details |-> << >>] }
        \cup { [json |-> TRUE, has_details |-> TRUE, details |-> d] :
                 d \in UNION {[1..n -> details] : n \in 0..2} }

\* the first of the delays that parse_duration_ms parses (the loops of
\* lines 93-102 and 105-113)
RECURSIVE first_parsed(_, _)
first_parsed(delays, n) ==
    IF n > Len(delays) THEN None
    ELSE IF delays[n] # Missing /\ parse_duration_ms(delays[n]).some
         THEN parse_duration_ms(delays[n])
         ELSE first_parsed(delays, n + 1)

\* a wrong search: quotaResetDelay is looked for before retryDelay
parse_retry_delay_ms_quota_first(error_text) ==
    LET details == error_text.details
        retry_delays == [n \in 1..Len(details) |->
                           IF details[n].type = "type.googleapis.com/google.rpc.RetryInfo"
                           THEN details[n].retryDelay
                           ELSE Missing]
        quota_reset_delays == [n \in 1..Len(details) |-> details[n].quotaResetDelay]
        quota == first_parsed(quota_reset_delays, 1)
    IN  IF ~error_text.json \/ ~error_text.has_details THEN None
        ELSE IF quota.some THEN quota
        ELSE first_parsed(retry_delays, 1)

\* parse_retry_delay_ms
parse_retry_delay_ms(error_text) ==
    LET details == error_text.details
        retry_delays == [n \in 1..Len(details) |->
                           IF details[n].type = "type.googleapis.com/google.rpc.RetryInfo"
                           THEN details[n].retryDelay
                           ELSE Missing]
        quota_reset_delays == [n \in 1..Len(details) |-> details[n].quotaResetDelay]
        retry_info == first_parsed(retry_delays, 1)
    IN  IF ~error_text.json \/ ~error_text.has_details THEN None
        ELSE IF retry_info.some THEN retry_info
        ELSE first_parsed(quota_reset_delays, 1)

\* RetryAction
WaitAndRetry(ms) == [action |-> "WaitAndRetry", wait_ms |-> ms]
RotateAccount == [action |-> "RotateAccount", wait_ms |-> 0]
NoRetry == [action |-> "NoRetry", wait_ms |-> 0]

\* a wrong decide_retry_action: a delay of 5000 ms is already too long
decide_retry_action_below_5000(status, error_text) ==
    IF status = 429
    THEN LET delay_ms == parse_retry_delay_ms(error_text)
         IN  IF delay_ms.some /\ delay_ms.ms < 5000
             THEN WaitAndRetry(delay_ms.ms + 200)
             ELSE RotateAccount
    ELSE IF status = 404 \/ status = 403 THEN RotateAccount
    ELSE NoRetry

\* decide_retry_action
decide_retry_action(status, error_text) ==
    IF status = 429
    THEN LET delay_ms == parse_retry_delay_ms(error_text)
         IN  IF delay_ms.some /\ delay_ms.ms <= 5000
             THEN WaitAndRetry(delay_ms.ms + 200)
             ELSE RotateAccount
    ELSE IF status = 404 \/ status = 403 THEN RotateAccount
    ELSE NoRetry

\* only the call and its result are part of these steps
PureOnly ==
    UNCHANGED << convVars, chunk, events, seen, tokenVars, sigVars, loopVars, call >>

\* a call of parse_duration_ms or of decide_retry_action is made
RetryInit ==
    /\ StreamInit /\ TokenManagerNew(EmptyMap) /\ SignatureManagerNew
    /\ \/ \E str \in DurationStrings \cup ValidDurations :
             call = [fn |-> "parse_duration_ms", duration_str |-> str]
       \/ \E body \in ErrorTexts :
             call = [fn |-> "parse_retry_delay_ms", error_text |-> body]
       \/ \E status \in {200, 400, 403, 404, 429, 500}, body \in ErrorTexts :
             call = [fn |-> "decide_retry_action", status |-> status, error_text |-> body]
    /\ returned = [done |-> FALSE]

\* the call of parse_duration_ms returns
ParseDurationMs ==
    /\ call.fn = "parse_duration_ms"
    /\ ~returned.done
    /\ returned' = [done |-> TRUE, value |-> parse_duration_ms(call.duration_str)]
    /\ PureOnly

\* the call of decide_retry_action returns
DecideRetryAction ==
    /\ call.fn = "decide_retry_action"
    /\ ~returned.done
    /\ returned' = [done |-> TRUE,
                    value |-> decide_retry_action(call.status, call.error_text)]
    /\ PureOnly

\* the call of parse_retry_delay_ms returns
ParseRetryDelayMs ==
    /\ call.fn = "parse_retry_delay_ms"
    /\ ~returned.done
    /\ returned' = [done |-> TRUE, value |-> parse_retry_delay_ms(call.error_text)]
    /\ PureOnly

RetrySpec ==
    RetryInit /\ [][ParseDurationMs \/ ParseRetryDelayMs \/ DecideRetryAction]_vars

(***************************************************************************)
(* Properties of the retry policy.                                         *)
(***************************************************************************)
\* decide_retry_action has returned
Decided == call.fn = "decide_retry_action" /\ returned.done

\* C23: decide_retry_action(status, body) is WaitAndRetry(d + 200) iff the
\* status is 429 and a delay d <= 5000 ms is parsed from the body; with
\* status 429 and a longer delay or none it is RotateAccount; with status
\* 403 or 404 it is RotateAccount whatever the body; with any other status
\* it is NoRetry.
C23_RetryDecision ==
    Decided =>
       LET d == parse_retry_delay_ms(call.error_text)
           short == d.some /\ d.ms <= 5000
           action == returned.value
       IN  /\ action.action = "WaitAndRetry" <=> (call.status = 429 /\ short)
           /\ (call.status = 429 /\ short) => action = WaitAndRetry(d.ms + 200)
           /\ (call.status = 429 /\ ~short) => action = RotateAccount
           /\ call.status \in {403, 404} => action = RotateAccount
           /\ call.status \notin {429, 403, 404} => action = NoRetry

\* a 429 whose body carries a delay of exactly 5000 ms was answered by
\* WaitAndRetry(5200)
C23_Witness ==
    /\ Decided
    /\ call.status = 429
    /\ parse_retry_delay_ms(call.error_text) = Some(5000)
    /\ returned.value = WaitAndRetry(5200)

\* the milliseconds of a unit
UnitMs(unit) ==
    CASE unit = "ms" -> 1 [] unit = "s" -> 1000 [] unit = "m" -> 60000
      [] unit = "h" -> 3600000

\* the <number><unit> component of str that begins at position i, if one
\* does: a decimal number (digits, with at most one dot) that no digit or
\* dot precedes, and the unit that follows it, blanks allowed in between
Component(str, i) ==
    LET n == Len(str)
        numeric(x) == x \in 1..n /\ str[x] \in NumChars
        j == CHOOSE e \in i..n : (\A x \in i..e : numeric(x)) /\ ~numeric(e + 1)
        k == CHOOSE e \in (j + 1)..(n + 1) :
                (\A x \in (j + 1)..(e - 1) : str[x] = " ") /\ (e > n \/ str[e] # " ")
        number == SubSeq(str, i, j)
        digits == SelectSeq(number, LAMBDA c : c # ".")
        unit == IF k <= n - 1 /\ str[k] = "m" /\ str[k + 1] = "s" THEN "ms"
                ELSE IF k <= n /\ str[k] \in {"s", "m", "h"} THEN str[k]
                ELSE ""
    IN  IF numeric(i) /\ ~numeric(i - 1)
        THEN [ is |-> unit # "" /\ digits # << >> /\ Len(number) - Len(digits) <= 1,
               number |-> number, unit |-> unit ]
        ELSE [is |-> FALSE, number |-> << >>, unit |-> ""]

\* the sum of the components that begin at the positions in S, in
\* thousandths of a millisecond above the whole milliseconds
RECURSIVE ComponentSum(_, _)
ComponentSum(str, S) ==
    IF S = {} THEN [whole |-> 0, thousandths |-> 0]
    ELSE LET i == CHOOSE x \in S : TRUE
             rest == ComponentSum(str, S \ {i})
             c == Component(str, i)
             dot == IF \E x \in 1..Len(c.number) : c.number[x] = "."
                    THEN CHOOSE x \in 1..Len(c.number) : c.number[x] = "."
                    ELSE Len(c.number) + 1
             whole == DigitsValue(SubSeq(c.number, 1, dot - 1))
             thousandths ==
                 DigitsValue(SubSeq(SubSeq(c.number, dot + 1, Len(c.number))
                                    \o << "0", "0", "0" >>, 1, 3))
         IN  IF c.unit = "ms"
             THEN [ whole |-> rest.whole + whole,
                    thousandths |-> rest.thousandths + thousandths ]
             ELSE [ whole |-> rest.whole + whole * UnitMs(c.unit)
                                         + thousandths * (UnitMs(c.unit) \div 1000),
                    thousandths |-> rest.thousandths ]

\* C24: parse_duration_ms returns the sum of all <number><unit> components
\* of the string (units ms, s, m, h), in milliseconds rounded to the
\* nearest integer, and absent for the empty string, a blank string and a
\* string without a unit-tagged number.
C24_DurationSum ==
    (call.fn = "parse_duration_ms" /\ returned.done) =>
       LET str == call.duration_str
           tagged == {i \in 1..Len(str) : Component(str, i).is}
           sum == ComponentSum(str, tagged)
       IN  returned.value = IF tagged = {} THEN None
                            ELSE Some(sum.whole + (sum.thousandths + 500) \div 1000)

(***************************************************************************)
(* The request translator (converter.rs).                                  *)
(***************************************************************************)
\* GeminiPart: text, inlineData, thoughtSignature and functionCall (thought
\* and functionResponse are None in every part built here)
GeminiPart(text, inline_data, thought_signature, function_call) ==
    [ text |-> text, inline_data |-> inline_data,
      thought_signature |-> thought_signature, function_call |-> function_call ]

\* a wrong convert_tool_use_to_function_call: the cache comes first
convert_tool_use_cache_first(id, name, input, signature, has_manager, m, now) ==
    LET cached == get_tool_signature(m, id, expiry_secs, now)
        thought_signature == IF has_manager /\ cached.result # Absent THEN cached.result
                             ELSE signature
    IN  [ part |-> GeminiPart(Absent, Absent, thought_signature,
                              [name |-> name, args |-> input, id |-> id]),
          map |-> IF has_manager THEN cached.map ELSE m ]

\* convert_tool_use_to_function_call(id, name, input, signature,
\* signature_manager): the part, and the cache as the call leaves it
convert_tool_use_to_function_call(id, name, input, signature, has_manager, m, now) ==
    LET cached == get_tool_signature(m, id, expiry_secs, now)
        asked == signature = Absent /\ has_manager
        thought_signature == IF signature # Absent THEN signature
                             ELSE IF has_manager THEN cached.result
                             ELSE Absent
    IN  [ part |-> GeminiPart(Absent, Absent, thought_signature,
                              [name |-> name, args |-> input, id |-> id]),
          map |-> IF asked THEN cached.map ELSE m ]

\* a tool_use block is translated
ConvertToolUse(id, name, input, signature, has_manager) ==
    /\ LET r == convert_tool_use_to_function_call(id, name, input, signature,
                                                  has_manager, tool_signatures, clock)
       IN  /\ returned' = [done |-> TRUE, value |-> r.part]
           /\ tool_signatures' = r.map
    /\ call' = [ fn |-> "convert_tool_use_to_function_call", id |-> id, name |-> name,
                 input |-> input, signature |-> signature, has_manager |-> has_manager ]
    /\ UNCHANGED << convVars, chunk, events, seen, tokenVars, loopVars, last_call, pending >>

\* tool_use blocks are translated while signatures are stored and time
\* passes
ToolUseSpec ==
    SignatureInit
    /\ [][ \/ TimePasses
           \/ \E k \in ToolUseIds, sig \in Signatures : StoreToolSignature(k, sig)
           \/ \E id \in ToolUseIds, signature \in {Absent, "sig_inline"},
                 has_manager \in BOOLEAN :
                 ConvertToolUse(id, "get_weather", "{\"city\":\"x\"}", signature,
                                has_manager) ]_vars

\* C27: the part that convert_tool_use_to_function_call yields has the
\* block's name, input and id as functionCall.name, args and id, and as
\* thoughtSignature the block's own signature if it has one (whatever the
\* cache holds), else the signature cached under the id if that entry is not
\* expired, else none.
C27_ToolUseConversion ==
    [][ (pureVars' # pureVars /\ call'.fn = "convert_tool_use_to_function_call") =>
          LET part == returned'.value
              block == call'
          IN  /\ part.function_call.name = block.name
              /\ part.function_call.args = block.input
              /\ part.function_call.id = block.id
              /\ part.thought_signature =
                    IF block.signature # Absent THEN block.signature
                    ELSE IF block.has_manager /\ Live(tool_signatures, block.id)
                         THEN tool_signatures[block.id].signature
                    ELSE Absent ]_vars

\* a block with an inline signature was translated while the cache held
\* another, live signature under its id: the inline one was taken
C27_Witness ==
    /\ call.fn = "convert_tool_use_to_function_call"
    /\ call.has_manager
    /\ call.signature # Absent
    /\ Live(tool_signatures, call.id)
    /\ tool_signatures[call.id].signature # call.signature
    /\ returned.value.thought_signature = call.signature

\* the longest list of messages of the model
MaxMessages == 3

\* AnthropicContent blocks: a text, an image (base64 or not), and the
\* kinds that these translations pass over
AnthropicBlock(type, text, source_type) ==
    [type |-> type, text |-> text, source_type |-> source_type]

\* AnthropicMessage: the roles, and some contents
AnthropicMessages ==
    LET text(t) == AnthropicBlock("text", t, Absent)
        image == AnthropicBlock("image", Absent, "base64")
    IN  [ role : {"user", "assistant", "system"},
          content : { << >>, << text("a") >>, << text("b") >>, << image >>,
                      << text("a"), image >>,
                      << AnthropicBlock("thinking", "t", Absent),
                         AnthropicBlock("image", Absent, "url"),
                         AnthropicBlock("tool_use", Absent, Absent) >> } ]

\* the entry of contents that the loop body (lines 608-647, 672-718) pushes
\* for msg; `latest` is map.get("latest") in the ext translation and
\* absent in the other
translate_message(msg, latest) ==
    LET role == IF msg.role = "assistant" THEN "model" ELSE "user"
        part(block) ==
            IF block.type = "text"
            THEN << GeminiPart(block.text, Absent, Absent, Absent) >>
            ELSE IF block.type = "image" /\ block.source_type = "base64"
            THEN << GeminiPart(Absent, "image/png", Absent, Absent) >>
            ELSE << >>
        RECURSIVE parts(_)
        parts(content) ==
            IF content = << >> THEN << >>
            ELSE part(Head(content)) \o parts(Tail(content))
    IN  [ role |-> role,
          parts |-> parts(msg.content)
                    \o IF role = "model" /\ latest # Absent
                       THEN << GeminiPart(Absent, Absent, latest, Absent) >>
                       ELSE << >> ]

\* contents with the entry at position p folded into the one before it,
\* `between` put between their parts
fold_entry(contents, p, between) ==
    [n \in 1..(Len(contents) - 1) |->
        IF n < p - 1 THEN contents[n]
        ELSE IF n = p - 1
             THEN [ role |-> contents[n].role,
                    parts |-> contents[n].parts \o between \o contents[p].parts ]
        ELSE contents[n + 1]]

\* a wrong merge: the entry is removed, its parts are not appended
RECURSIVE merge_same_role_loses_parts(_, _)
merge_same_role_loses_parts(contents, p) ==
    IF p > Len(contents) THEN contents
    ELSE IF contents[p].role = contents[p - 1].role
         THEN merge_same_role_loses_parts(
                 [n \in 1..(Len(contents) - 1) |->
                     IF n < p THEN contents[n] ELSE contents[n + 1]], p)
    ELSE merge_same_role_loses_parts(contents, p + 1)

\* the loop of lines 650-659 and 721-730, its index i at position p
RECURSIVE merge_same_role(_, _)
merge_same_role(contents, p) ==
    IF p > Len(contents) THEN contents
    ELSE IF contents[p].role = contents[p - 1].role
         THEN merge_same_role(fold_entry(contents, p, << >>), p)
    ELSE merge_same_role(contents, p + 1)

\* the loop of lines 567-591 of convert_openai_to_gemini_contents
RECURSIVE merge_user_entries(_, _)
merge_user_entries(contents, p) ==
    IF p > Len(contents) THEN contents
    ELSE IF contents[p].role = "user" /\ contents[p - 1].role = "user"
         THEN LET last == contents[p - 1].parts
                  first == contents[p].parts
                  need_separator == /\ last # << >>
                                    /\ first # << >>
                                    /\ last[Len(last)].text # Absent
                                    /\ first[1].text # Absent
                  separator == IF need_separator
                               THEN << GeminiPart("\n\n", Absent, Absent, Absent) >>
                               ELSE << >>
              IN  merge_user_entries(fold_entry(contents, p, separator), p)
    ELSE merge_user_entries(contents, p + 1)

\* _convert_anthropic_to_gemini_contents(request)
_convert_anthropic_to_gemini_contents(messages) ==
    merge_same_role([n \in 1..Len(messages) |-> translate_message(messages[n], Absent)], 2)

\* convert_anthropic_to_gemini_contents_ext(request, signature_map)
convert_anthropic_to_gemini_contents_ext(messages, latest) ==
    merge_same_role([n \in 1..Len(messages) |-> translate_message(messages[n], latest)], 2)

\* the contents of convert_openai_to_gemini_contents before its merge
\* (lines 464-564): no entry without parts
OpenAIContents ==
    LET text(t) == GeminiPart(t, Absent, Absent, Absent)
        image == GeminiPart(Absent, "image/png", Absent, Absent)
    IN  [ role : {"user", "model"},
          parts : { << text("a") >>, << image >>, << text("a"), image >>,
                    << image, text("b") >> } ]

\* a list of messages is handed to one of the translations
ContentsInit ==
    /\ StreamInit /\ TokenManagerNew(EmptyMap) /\ SignatureManagerNew
    /\ returned = [done |-> FALSE]
    /\ \/ \E messages \in UNION {[1..n -> AnthropicMessages] : n \in 0..MaxMessages} :
             \/ call = [ fn |-> "_convert_anthropic_to_gemini_contents",
                         messages |-> messages, latest |-> Absent ]
             \/ call = [ fn |-> "convert_anthropic_to_gemini_contents_ext",
                         messages |-> messages, latest |-> "sig_latest" ]
       \/ \E contents \in UNION {[1..n -> OpenAIContents] : n \in 0..MaxMessages} :
             call = [fn |-> "convert_openai_to_gemini_contents", contents |-> contents]

\* the Anthropic translation returns
ConvertAnthropicContents ==
    /\ ~returned.done
    /\ \/ /\ call.fn = "_convert_anthropic_to_gemini_contents"
          /\ returned' = [ done |-> TRUE,
                           value |-> _convert_anthropic_to_gemini_contents(call.messages) ]
       \/ /\ call.fn = "convert_anthropic_to_gemini_contents_ext"
          /\ returned' = [ done |-> TRUE,
                           value |-> convert_anthropic_to_gemini_contents_ext(
                                        call.messages, call.latest) ]
    /\ PureOnly

\* the OpenAI translation merges its contents and returns
ConvertOpenAIContents ==
    /\ ~returned.done
    /\ call.fn = "convert_openai_to_gemini_contents"
    /\ returned' = [done |-> TRUE, value |-> merge_user_entries(call.contents, 2)]
    /\ PureOnly

ContentsSpec ==
    ContentsInit /\ [][ConvertAnthropicContents \/ ConvertOpenAIContents]_vars

(***************************************************************************)
(* Properties of the request translator.                                   *)
(***************************************************************************)
\* the parts of all entries, in order
RECURSIVE AllParts(_)
AllParts(contents) ==
    IF contents = << >> THEN << >>
    ELSE Head(contents).parts \o AllParts(Tail(contents))

\* an Anthropic translation has returned
Translated ==
    /\ returned.done
    /\ call.fn \in { "_convert_anthropic_to_gemini_contents",
                     "convert_anthropic_to_gemini_contents_ext" }

\* C28: the contents translated from a list of Anthropic messages have no
\* two adjacent entries of the same role: there is one entry for each
\* maximal run of messages of the same role (assistant is model, every
\* other role is user), and the parts of the entries, read in order, are
\* the translated parts of the messages in the order of the messages.
C28_RolesAlternate ==
    Translated =>
       LET out == returned.value
           messages == call.messages
           role(n) == IF messages[n].role = "assistant" THEN "model" ELSE "user"
           starts == {n \in 1..Len(messages) : n = 1 \/ role(n) # role(n - 1)}
           translated == [n \in 1..Len(messages) |->
                            translate_message(messages[n], call.latest)]
       IN  /\ \A i \in 1..(Len(out) - 1) : out[i].role # out[i + 1].role
           /\ Len(out) = Cardinality(starts)
           /\ \A i \in 1..Len(out) :
                 \E n \in starts :
                    /\ Cardinality({x \in starts : x <= n}) = i
                    /\ out[i].role = role(n)
           /\ AllParts(out) = AllParts(translated)

\* three messages, the first two of user roles, came out as two entries,
\* the first with the parts of both
C28_Witness ==
    /\ Translated
    /\ Len(call.messages) = 3
    /\ call.messages[1].role = "user"
    /\ call.messages[2].role = "system"
    /\ call.messages[3].role = "assistant"
    /\ Len(returned.value) = 2
    /\ Len(returned.value[1].parts) = 3
    /\ Len(returned.value[2].parts) = 2

\* the entries of `rest` appended to `done`, an entry whose role is in
\* `merged` and is the role of the entry before it folded into that one,
\* with a part "\n\n" between them when they are user entries and the
\* last part before and the first part after both carry text
RECURSIVE MergedWithSeparators(_, _, _)
MergedWithSeparators(done, rest, merged) ==
    IF rest = << >> THEN done
    ELSE LET entry == Head(rest)
             before == done[Len(done)].parts
             separator ==
                 IF /\ entry.role = "user"
                    /\ before # << >> /\ entry.parts # << >>
                    /\ before[Len(before)].text # Absent
                    /\ entry.parts[1].text # Absent
                 THEN << GeminiPart("\n\n", Absent, Absent, Absent) >>
                 ELSE << >>
         IN  IF /\ done # << >>
                /\ done[Len(done)].role = entry.role
                /\ entry.role \in merged
             THEN MergedWithSeparators(
                     [done EXCEPT ![Len(done)].parts = before \o separator \o entry.parts],
                     Tail(rest), merged)
             ELSE MergedWithSeparators(Append(done, entry), Tail(rest), merged)

\* C29: where a translation merges two adjacent user entries whose
\* boundary parts (the last part of the first, the first part of the
\* second) both carry text, a text part "\n\n" stands between them in the
\* merged entry; there is no such part where a boundary part is not text
\* and none between merged model entries.
C29_SeparatorOnUserMerge ==
    /\ Translated =>
          returned.value =
             MergedWithSeparators(<< >>,
                [n \in 1..Len(call.messages) |->
                    translate_message(call.messages[n], call.latest)],
                {"user", "model"})
    /\ (returned.done /\ call.fn = "convert_openai_to_gemini_contents") =>
          returned.value = MergedWithSeparators(<< >>, call.contents, {"user"})

\* the same of the OpenAI translation alone
C29_OpenAIOnly ==
    (returned.done /\ call.fn = "convert_openai_to_gemini_contents") =>
        returned.value = MergedWithSeparators(<< >>, call.contents, {"user"})

(***************************************************************************)
(* The schema sanitizer.  A serde_json::Value is a record of its kind and  *)
(* its content: a string, a number, a boolean, a sequence of values, or a  *)
(* function from the keys of an object to their values.                    *)
(***************************************************************************)
\* how deep the schemas of the model nest
MaxDepth == 1

\* serde_json::Value of a kind ("str", "num", "bool", "arr", "obj")
Value(kind, v) == [kind |-> kind, v |-> v]

FIELDS_TO_REMOVE == {"$schema", "additionalProperties", "format", "default", "uniqueItems"}

VALIDATION_FIELDS ==
    << "minLength", "maxLength", "minimum", "maximum",
       "exclusiveMinimum", "exclusiveMaximum", "minItems", "maxItems" >>

\* a wrong conversion: the types stay as they are written
uppercase_schema_types_keeps_case(schema) == schema

RECURSIVE uppercase_schema_types(_)
uppercase_schema_types(schema) ==
    LET \* str::to_uppercase on the strings of the model
        to_uppercase(s) ==
            CASE s = "string" -> "STRING"
              [] s = "integer" -> "INTEGER"
              [] s = "object" -> "OBJECT"
              [] s = "array" -> "ARRAY"
              [] s = "null" -> "NULL"
              [] s = "x" -> "X"
              [] s = "date" -> "DATE"
              [] s \in {"STRING", "INTEGER", "OBJECT", "ARRAY", "NULL", "X", "DATE"} -> s
    IN
    IF schema.kind = "obj"
    THEN Value("obj", [key \in DOMAIN schema.v |->
            LET value == schema.v[key]
            IN  IF key = "type"
                THEN IF value.kind = "str" THEN Value("str", to_uppercase(value.v))
                     ELSE IF value.kind = "arr"
                     THEN Value("arr", [i \in 1..Len(value.v) |->
                                    IF value.v[i].kind = "str"
                                    THEN Value("str", to_uppercase(value.v[i].v))
                                    ELSE value.v[i]])
                     ELSE value
                ELSE IF value.kind \in {"obj", "arr"}
                     THEN uppercase_schema_types(value)
                ELSE value])
    ELSE IF schema.kind = "arr"
    THEN Value("arr", [i \in 1..Len(schema.v) |-> uppercase_schema_types(schema.v[i])])
    ELSE schema

RECURSIVE clean_json_schema(_)
clean_json_schema(schema) ==
    IF schema.kind = "obj"
    THEN LET obj == schema.v
             \* validations.join(", ") of lines 852-857 and 889, 903: "field: value"
             \* for each validation field of obj, in the order of
             \* VALIDATION_FIELDS, the value as serde_json displays it
             validations ==
                 LET display(value) ==
                         CASE value.kind = "num" -> ToString(value.v)
                           [] value.kind = "str" -> "\"" \o value.v \o "\""
                           [] value.kind = "bool" -> IF value.v THEN "true" ELSE "false"
                     collected ==
                         LET fields == SelectSeq(VALIDATION_FIELDS, LAMBDA field : field \in DOMAIN obj)
                         IN  [i \in 1..Len(fields) |-> fields[i] \o ": " \o display(obj[fields[i]])]
                     RECURSIVE join(_)
                     join(strs) ==
                         IF Len(strs) = 1 THEN strs[1]
                         ELSE strs[1] \o ", " \o join(Tail(strs))
                 IN  IF collected = << >> THEN Absent ELSE join(collected)
             kept == DOMAIN obj \ (FIELDS_TO_REMOVE
                                   \cup {VALIDATION_FIELDS[i] : i \in DOMAIN VALIDATION_FIELDS})
             single_type(types) ==
                 LET filtered == SelectSeq(types, LAMBDA t : t # Value("str", "null"))
                 IN  IF filtered # << >> THEN filtered[1]
                     ELSE IF types # << >> THEN types[1]
                     ELSE Value("str", "string")
             cleaned ==
                 [key \in kept |->
                     LET value == obj[key]
                     IN  IF key = "type" /\ value.kind = "arr"
                         THEN single_type(value.v)
                         ELSE IF /\ key = "description"
                                 /\ validations # Absent
                                 /\ value.kind = "str"
                         THEN Value("str", value.v \o " (" \o validations \o ")")
                         ELSE IF value.kind \in {"obj", "arr"}
                         THEN clean_json_schema(value)
                         ELSE value]
         IN  uppercase_schema_types(Value("obj",
                IF validations # Absent /\ "description" \notin kept
                THEN ("description" :> Value("str", "Validation: " \o validations)) @@ cleaned
                ELSE cleaned))
    ELSE IF schema.kind = "arr"
    THEN Value("arr", [i \in 1..Len(schema.v) |-> clean_json_schema(schema.v[i])])
    ELSE schema

\* JSON schemas nested `depth` deep: a type (a name or a list of names) or
\* none, a description or none, validation keys, unsupported keys, and from
\* depth 1 a property (one is named like a keyword) or the items
RECURSIVE Schemas(_)
Schemas(depth) ==
    LET key(name, value) == name :> value
        EmptyObject == [name \in {} |-> Value("str", "")]
        types == { EmptyObject,
                   key("type", Value("str", "string")),
                   key("type", Value("str", "integer")),
                   key("type", Value("arr", << Value("str", "string"), Value("str", "null") >>)),
                   key("type", Value("arr", << Value("str", "null"), Value("str", "integer") >>)),
                   key("type", Value("arr", << Value("str", "null") >>)) }
        descriptions == { EmptyObject, key("description", Value("str", "x")) }
        validations == { EmptyObject,
                         key("minLength", Value("num", 3)),
                         key("minLength", Value("num", 3)) @@ key("maxLength", Value("num", 5)),
                         key("minimum", Value("num", 1)) @@ key("exclusiveMaximum", Value("bool", TRUE)) }
        unsupported == { EmptyObject,
                         key("format", Value("str", "date")),
                         key("$schema", Value("str", "x")) @@ key("default", Value("str", "x"))
                            @@ key("additionalProperties", Value("bool", FALSE))
                            @@ key("uniqueItems", Value("bool", TRUE)) }
        leaves == { Value("obj", t @@ d @@ v @@ u) :
                       t \in types, d \in descriptions, v \in validations, u \in unsupported }
    IN  IF depth = 0 THEN leaves
        ELSE LET inner == Schemas(depth - 1)
                 nested == { key("type", Value("str", "object"))
                                @@ key("properties", Value("obj", key(name, sub))) :
                                name \in {"city", "type"}, sub \in inner }
                           \cup { key("type", Value("str", "array")) @@ key("items", sub) :
                                     sub \in inner }
             IN  inner \cup
                 { Value("obj", n @@ d @@ v @@ u) :
                      n \in nested, d \in descriptions,
                      v \in { EmptyObject, key("minItems", Value("num", 1)) },
                      u \in { EmptyObject, key("additionalProperties", Value("bool", FALSE)) } }

\* a schema is handed to the sanitizer
SchemaInit ==
    /\ StreamInit /\ TokenManagerNew(EmptyMap) /\ SignatureManagerNew
    /\ returned = [done |-> FALSE]
    /\ \E schema \in Schemas(MaxDepth) :
          call = [fn |-> "clean_json_schema", schema |-> schema]

\* the sanitizer returns
CleanJsonSchema ==
    /\ ~returned.done
    /\ call.fn = "clean_json_schema"
    /\ returned' = [done |-> TRUE, value |-> clean_json_schema(call.schema)]
    /\ PureOnly

SchemaSpec == SchemaInit /\ [][CleanJsonSchema]_vars

(***************************************************************************)
(* Properties of the schema sanitizer.                                     *)
(***************************************************************************)
\* the objects in a value, at every depth
RECURSIVE Objects(_)
Objects(value) ==
    IF value.kind = "obj"
    THEN {value} \cup UNION {Objects(value.v[key]) : key \in DOMAIN value.v}
    ELSE IF value.kind = "arr"
    THEN UNION {Objects(value.v[i]) : i \in DOMAIN value.v}
    ELSE {}

\* the schemas in a schema: itself, the schemas of its properties and of
\* its items
RECURSIVE SchemasIn(_)
SchemasIn(schema) ==
    {schema}
    \cup (IF "properties" \in DOMAIN schema.v
          THEN UNION {SchemasIn(schema.v["properties"].v[name]) :
                         name \in DOMAIN schema.v["properties"].v}
          ELSE {})
    \cup (IF "items" \in DOMAIN schema.v THEN SchemasIn(schema.v["items"]) ELSE {})

\* the objects of a value, each with the object at its place in another
RECURSIVE ObjectPairs(_, _)
ObjectPairs(before, after) ==
    IF before.kind = "obj" /\ after.kind = "obj"
    THEN {<< before, after >>}
         \cup UNION {ObjectPairs(before.v[key], after.v[key]) :
                        key \in DOMAIN before.v \cap DOMAIN after.v}
    ELSE IF before.kind = "arr" /\ after.kind = "arr"
    THEN UNION {ObjectPairs(before.v[i], after.v[i]) :
                   i \in DOMAIN before.v \cap DOMAIN after.v}
    ELSE {}

\* C30: the output of clean_json_schema has, at every depth, none of the
\* keys $schema, additionalProperties, format, default, uniqueItems and no
\* validation key; the type of every schema in it is an uppercase string;
\* and every object of the input that had validation keys has them in the
\* description of its output: " (k: v, ...)" after the description it had,
\* "Validation: k: v, ..." where it had none.
C30_SchemaCleaned ==
    (returned.done /\ call.fn = "clean_json_schema") =>
       LET out == returned.value
           validation_keys == {VALIDATION_FIELDS[i] : i \in DOMAIN VALIDATION_FIELDS}
           text(obj) ==
               LET RECURSIVE list(_)
                   list(i) ==
                       IF i > Len(VALIDATION_FIELDS) THEN << >>
                       ELSE (IF VALIDATION_FIELDS[i] \in DOMAIN obj
                             THEN << VALIDATION_FIELDS[i] \o ": "
                                       \o (IF obj[VALIDATION_FIELDS[i]].kind = "num"
                                           THEN ToString(obj[VALIDATION_FIELDS[i]].v)
                                           ELSE IF obj[VALIDATION_FIELDS[i]].v
                                                THEN "true" ELSE "false") >>
                             ELSE << >>) \o list(i + 1)
                   RECURSIVE commas(_)
                   commas(strs) == IF Len(strs) = 1 THEN strs[1]
                                   ELSE strs[1] \o ", " \o commas(Tail(strs))
               IN  commas(list(1))
       IN  /\ \A object \in Objects(out) :
                DOMAIN object.v \cap (FIELDS_TO_REMOVE \cup validation_keys) = {}
           /\ \A schema \in SchemasIn(out) :
                "type" \in DOMAIN schema.v =>
                    /\ schema.v["type"].kind = "str"
                    /\ schema.v["type"].v \in {"STRING", "INTEGER", "OBJECT", "ARRAY", "NULL"}
           /\ \A pair \in ObjectPairs(call.schema, out) :
                DOMAIN pair[1].v \cap validation_keys # {} =>
                    /\ "description" \in DOMAIN pair[2].v
                    /\ pair[2].v["description"] =
                          IF "description" \in DOMAIN pair[1].v
                          THEN Value("str", pair[1].v["description"].v
                                      \o " (" \o text(pair[1].v) \o ")")
                          ELSE Value("str", "Validation: " \o text(pair[1].v))

\* {type: [string, null], minLength: 3, description: x} has become
\* {type: STRING, description: "x (minLength: 3)"}
C30_Witness ==
    /\ returned.done
    /\ call.fn = "clean_json_schema"
    /\ call.schema =
          Value("obj", ("type" :> Value("arr", << Value("str", "string"), Value("str", "null") >>))
                 @@ ("minLength" :> Value("num", 3))
                 @@ ("description" :> Value("str", "x")))
    /\ returned.value =
          Value("obj", ("type" :> Value("str", "STRING"))
                 @@ ("description" :> Value("str", "x (minLength: 3)")))

(***************************************************************************)
(* The config builder and the model mapper.  A model name is a string;     *)
(* the functions look for keywords in its lowercased form.                 *)
(***************************************************************************)
DEFAULT_THINKING_BUDGET == 8191

FLASH_THINKING_BUDGET_LIMIT == 24576

\* str::to_lowercase
RECURSIVE to_lowercase(_)
to_lowercase(s) ==
    LET upper == "ABCDEFGHIJKLMNOPQRSTUVWXYZ"
        lower == "abcdefghijklmnopqrstuvwxyz"
        char == SubSeq(s, 1, 1)
        at == {i \in 1..26 : SubSeq(upper, i, i) = char}
    IN  IF s = "" THEN ""
        ELSE (IF at = {} THEN char
              ELSE LET i == CHOOSE i \in at : TRUE IN SubSeq(lower, i, i))
             \o to_lowercase(SubSeq(s, 2, Len(s)))

\* str::contains
contains(s, pattern) ==
    \E i \in 1..(Len(s) - Len(pattern) + 1) :
       SubSeq(s, i, i + Len(pattern) - 1) = pattern

supports_thinking(model_name) ==
    LET lower_name == to_lowercase(model_name)
    IN  \/ contains(lower_name, "sonnet")
        \/ contains(lower_name, "thinking")
        \/ contains(lower_name, "claude-3-7")
        \/ contains(lower_name, "opus")
        \/ contains(lower_name, "gemini-2.5")
        \/ contains(lower_name, "gemini-3")

is_gemini_flash(model_name) ==
    LET lower_name == to_lowercase(model_name)
    IN  contains(lower_name, "gemini-2.5-flash") \/ contains(lower_name, "flash")

\* i32::min
min(a, b) == IF a <= b THEN a ELSE b

\* a wrong budget: the limit of the flash models for every model
calculate_thinking_budget_flash_limit(user_budget, model_name) ==
    min(IF user_budget.some THEN user_budget.value ELSE DEFAULT_THINKING_BUDGET,
        FLASH_THINKING_BUDGET_LIMIT)

\* user_budget is an Option<i32>: [some, value]
calculate_thinking_budget(user_budget, model_name) ==
    LET base_budget == IF user_budget.some THEN user_budget.value
                       ELSE DEFAULT_THINKING_BUDGET
    IN  IF is_gemini_flash(model_name)
        THEN min(base_budget, FLASH_THINKING_BUDGET_LIMIT)
        ELSE min(base_budget, DEFAULT_THINKING_BUDGET)

\* request is its model and its thinking.budget_tokens; the result is
\* None ([some |-> FALSE]) or Some of the thinkingConfig
build_thinking_config(request, mapped_model) ==
    IF ~supports_thinking(request.model) /\ ~supports_thinking(mapped_model)
    THEN [some |-> FALSE]
    ELSE [ some |-> TRUE,
           includeThoughts |-> TRUE,
           thinkingBudget |-> calculate_thinking_budget(request.budget_tokens,
                                                        mapped_model) ]

SUPPORTED_MODELS ==
    { "claude-opus-4-5-thinking", "claude-sonnet-4-5", "claude-sonnet-4-5-thinking",
      "gemini-2.5-flash", "gemini-3-pro-preview", "gemini-3-flash-preview",
      "gemini-2.0-flash-exp" }

\* a wrong chain: haiku is looked for before sonnet and thinking
default_mapping_haiku_first(model_name) ==
    LET lower_name == to_lowercase(model_name)
    IN  IF contains(lower_name, "haiku") THEN "gemini-2.0-flash-exp"
        ELSE IF contains(lower_name, "sonnet") \/ contains(lower_name, "thinking")
                \/ contains(lower_name, "opus")
        THEN "gemini-3-pro-preview"
        ELSE IF Len(lower_name) >= 7 /\ SubSeq(lower_name, 1, 7) = "gemini-"
        THEN model_name
        ELSE "claude-sonnet-4-5"

default_mapping(model_name) ==
    LET exact_mapping ==
            ("claude-sonnet-4-5-20250929" :> "claude-sonnet-4-5-thinking")
            @@ ("claude-3-5-sonnet-20241022" :> "claude-sonnet-4-5")
            @@ ("claude-3-5-sonnet-20240620" :> "claude-sonnet-4-5")
            @@ ("claude-opus-4" :> "claude-opus-4-5-thinking")
            @@ ("claude-opus-4-5-20251101" :> "claude-opus-4-5-thinking")
            @@ ("claude-opus-4-5" :> "claude-opus-4-5-thinking")
            @@ ("claude-haiku-4" :> "claude-sonnet-4-5")
            @@ ("claude-3-haiku-20240307" :> "claude-sonnet-4-5")
            @@ ("claude-haiku-4-5-20251001" :> "claude-sonnet-4-5")
            @@ ("gemini-3-pro-high" :> "gemini-3-pro-preview")
            @@ ("gemini-3-pro-low" :> "gemini-3-pro-preview")
            @@ ("gemini-3-flash" :> "gemini-3-flash-preview")
        lower_name == to_lowercase(model_name)
    IN  IF model_name \in DOMAIN exact_mapping THEN exact_mapping[model_name]
        ELSE IF contains(lower_name, "sonnet") \/ contains(lower_name, "thinking")
        THEN "gemini-3-pro-preview"
        ELSE IF contains(lower_name, "haiku") THEN "gemini-2.0-flash-exp"
        ELSE IF contains(lower_name, "opus") THEN "gemini-3-pro-preview"
        ELSE IF Len(lower_name) >= 7 /\ SubSeq(lower_name, 1, 7) = "gemini-"
        THEN model_name
        ELSE "claude-sonnet-4-5"

\* custom_mapping is a function from model names to model names
map_model_name(custom_mapping, model_name) ==
    IF model_name \in DOMAIN custom_mapping THEN custom_mapping[model_name]
    ELSE IF model_name \in SUPPORTED_MODELS THEN model_name
    ELSE default_mapping(model_name)

\* a wrong test: only the first tool is looked at
has_web_search_tool_first_only(tools) ==
    /\ tools.some
    /\ tools.list # << >>
    /\ tools.list[1].kind = "obj"
    /\ "name" \in DOMAIN tools.list[1].v
    /\ tools.list[1].v["name"].kind = "str"
    /\ tools.list[1].v["name"].v = "web_search"

\* tools is an Option<&Vec<serde_json::Value>>: [some, list]
has_web_search_tool(tools) ==
    /\ tools.some
    /\ \E i \in DOMAIN tools.list :
          /\ tools.list[i].kind = "obj"
          /\ "name" \in DOMAIN tools.list[i].v
          /\ tools.list[i].v["name"].kind = "str"
          /\ tools.list[i].v["name"].v = "web_search"

map_model_with_tools(custom_mapping, model_name, tools) ==
    IF has_web_search_tool(tools) THEN "gemini-2.5-flash"
    ELSE map_model_name(custom_mapping, model_name)

\* model names that meet every rule of the chain, in both cases of letters
ModelNames ==
    { "claude-sonnet-4-5", "gemini-2.5-flash", "claude-opus-4",
      "claude-3-haiku-20240307", "gemini-3-flash", "Claude-Sonnet-9",
      "my-thinking-haiku", "claude-haiku-9", "Opus-haiku", "claude-opus-9",
      "CLAUDE-3-7", "gemini-1.5-pro", "Gemini-Ultra", "gemini-2.0-flash-exp",
      "gpt-4" }

\* a call of build_thinking_config, map_model_name or map_model_with_tools
ConfigInit ==
    /\ StreamInit /\ TokenManagerNew(EmptyMap) /\ SignatureManagerNew
    /\ returned = [done |-> FALSE]
    /\ \/ \E model \in ModelNames, mapped_model \in ModelNames,
             budget_tokens \in {[some |-> FALSE, value |-> 0]}
                \cup [some : {TRUE},
                      value : {-1, 0, 1024, 8191, 8192, 24576, 24577, 2147483647}] :
             call = [ fn |-> "build_thinking_config",
                      request |-> [model |-> model, budget_tokens |-> budget_tokens],
                      mapped_model |-> mapped_model ]
       \/ \E model_name \in ModelNames,
             custom_mapping \in
                { << >>,
                  "claude-sonnet-4-5" :> "gemini-2.0-flash-exp",
                  ("gpt-4" :> "gemini-3-pro-preview") @@ ("claude-haiku-9" :> "my-model") } :
             \/ call = [ fn |-> "map_model_name", custom_mapping |-> custom_mapping,
                         model_name |-> model_name ]
             \/ \E tools \in
                   LET tool(name) == Value("obj", ("name" :> name)
                                          @@ ("description" :> Value("str", "x")))
                   IN  {[some |-> FALSE, list |-> << >>]}
                       \cup [some : {TRUE},
                             list : { << >>,
                                      << tool(Value("str", "get_weather")) >>,
                                      << tool(Value("str", "web_search")) >>,
                                      << tool(Value("str", "get_weather")),
                                         tool(Value("str", "web_search")) >>,
                                      << tool(Value("num", 1)),
                                         Value("str", "web_search"),
                                         Value("obj", "title" :> Value("str", "web_search")) >> }] :
                   call = [ fn |-> "map_model_with_tools", custom_mapping |-> custom_mapping,
                            model_name |-> model_name, tools |-> tools ]

BuildThinkingConfig ==
    /\ ~returned.done
    /\ call.fn = "build_thinking_config"
    /\ returned' = [ done |-> TRUE,
                     value |-> build_thinking_config(call.request, call.mapped_model) ]
    /\ PureOnly

MapModelName ==
    /\ ~returned.done
    /\ call.fn = "map_model_name"
    /\ returned' = [ done |-> TRUE,
                     value |-> map_model_name(call.custom_mapping, call.model_name) ]
    /\ PureOnly

MapModelWithTools ==
    /\ ~returned.done
    /\ call.fn = "map_model_with_tools"
    /\ returned' = [ done |-> TRUE,
                     value |-> map_model_with_tools(call.custom_mapping, call.model_name,
                                                    call.tools) ]
    /\ PureOnly

ConfigSpec ==
    ConfigInit /\ [][BuildThinkingConfig \/ MapModelName \/ MapModelWithTools]_vars

(***************************************************************************)
(* Properties of the config builder and the model mapper.                  *)
(***************************************************************************)
\* a name has one of the keywords of the models that think
Thinks(name) ==
    \E keyword \in {"sonnet", "thinking", "claude-3-7", "opus", "gemini-2.5", "gemini-3"} :
       contains(to_lowercase(name), keyword)

\* C31: build_thinking_config gives a thinkingConfig only when thinking is
\* supported (by the requested or by the mapped model), and then with
\* includeThoughts true and thinkingBudget min(b, cap), b the budget_tokens
\* of the user or 8191 without one, cap 24576 for a mapped flash model and
\* 8191 for every other; so the budget is never above 24576, and never
\* above 8191 when the mapped model is not a flash model.
C31_ThinkingConfig ==
    (returned.done /\ call.fn = "build_thinking_config") =>
       LET b == IF call.request.budget_tokens.some
                THEN call.request.budget_tokens.value ELSE 8191
           flash == contains(to_lowercase(call.mapped_model), "flash")
           cap == IF flash THEN 24576 ELSE 8191
       IN  /\ returned.value.some <=> (Thinks(call.request.model) \/ Thinks(call.mapped_model))
           /\ returned.value.some =>
                 /\ returned.value.includeThoughts = TRUE
                 /\ returned.value.thinkingBudget = (IF b <= cap THEN b ELSE cap)
                 /\ returned.value.thinkingBudget <= 24576
                 /\ ~flash => returned.value.thinkingBudget <= 8191

\* a budget above the limit of the flash models was cut to the limit
C31_Witness ==
    /\ returned.done
    /\ call.fn = "build_thinking_config"
    /\ call.mapped_model = "gemini-2.5-flash"
    /\ call.request.budget_tokens.some
    /\ call.request.budget_tokens.value > 24576
    /\ returned.value.some
    /\ returned.value.thinkingBudget = 24576

\* the chain of map_model_name, as the claim words it
Resolved(custom_mapping, name) ==
    LET lower == to_lowercase(name)
        alias == [ n \in { "claude-opus-4", "claude-3-haiku-20240307", "gemini-3-flash" } |->
                     CASE n = "claude-opus-4" -> "claude-opus-4-5-thinking"
                       [] n = "claude-3-haiku-20240307" -> "claude-sonnet-4-5"
                       [] n = "gemini-3-flash" -> "gemini-3-flash-preview" ]
    IN  CASE name \in DOMAIN custom_mapping -> custom_mapping[name]
          [] OTHER ->
        CASE name \in SUPPORTED_MODELS -> name
          [] OTHER ->
        CASE name \in DOMAIN alias -> alias[name]
          [] OTHER ->
        CASE contains(lower, "sonnet") \/ contains(lower, "thinking") -> "gemini-3-pro-preview"
          [] OTHER ->
        CASE contains(lower, "haiku") -> "gemini-2.0-flash-exp"
          [] OTHER ->
        CASE contains(lower, "opus") -> "gemini-3-pro-preview"
          [] OTHER ->
        CASE Len(lower) >= 7 /\ SubSeq(lower, 1, 7) = "gemini-" -> name
          [] OTHER -> "claude-sonnet-4-5"

\* C32: with a tool named web_search in the tools, map_model_with_tools
\* returns gemini-2.5-flash for every model name, whatever the custom
\* mapping says; without one it returns what map_model_name returns.
C32_WebSearchForcesFlash ==
    (returned.done /\ call.fn = "map_model_with_tools") =>
       LET web_search ==
               /\ call.tools.some
               /\ \E i \in DOMAIN call.tools.list :
                     /\ call.tools.list[i].kind = "obj"
                     /\ "name" \in DOMAIN call.tools.list[i].v
                     /\ call.tools.list[i].v["name"].kind = "str"
                     /\ call.tools.list[i].v["name"].v = "web_search"
       IN  returned.value = IF web_search THEN "gemini-2.5-flash"
                            ELSE map_model_name(call.custom_mapping, call.model_name)

\* web_search is the second tool and the custom mapping has the name
C32_Witness ==
    /\ returned.done
    /\ call.fn = "map_model_with_tools"
    /\ call.model_name \in DOMAIN call.custom_mapping
    /\ call.custom_mapping[call.model_name] # "gemini-2.5-flash"
    /\ call.tools.some
    /\ Len(call.tools.list) = 2
    /\ returned.value = "gemini-2.5-flash"

\* C33: map_model_name resolves a name by the first rule that matches: a
\* key of the custom mapping (also for a supported name), a supported name
\* unchanged, the table of exact names, the keywords in the lowercased
\* name (sonnet or thinking, then haiku, then opus), a name that starts
\* with gemini- unchanged, else claude-sonnet-4-5.
C33_MappingChain ==
    (returned.done /\ call.fn = "map_model_name") =>
        returned.value = Resolved(call.custom_mapping, call.model_name)

\* a name with thinking and haiku went to the model of thinking
C33_Witness ==
    /\ returned.done
    /\ call.fn = "map_model_name"
    /\ call.model_name = "my-thinking-haiku"
    /\ returned.value = "gemini-3-pro-preview"

(***************************************************************************)
(* More properties of the retry policy.                                    *)
(***************************************************************************)
\* C34: parse_retry_delay_ms prefers RetryInfo.retryDelay: with an entry
\* of RetryInfo whose retryDelay is a duration among error.details, the
\* delay of the first such entry is returned, wherever the entries with
\* metadata.quotaResetDelay stand; the first quotaResetDelay that is a
\* duration is returned only when there is no such RetryInfo entry; a text
\* that is not JSON or has no error.details array gives none.
C34_RetryInfoFirst ==
    (returned.done /\ call.fn = "parse_retry_delay_ms") =>
       LET text == call.error_text
           details == text.details
           parsable(delay) == delay # Missing /\ parse_duration_ms(delay).some
           retry_info == { n \in DOMAIN details :
                             /\ details[n].type = "type.googleapis.com/google.rpc.RetryInfo"
                             /\ parsable(details[n].retryDelay) }
           quota == { n \in DOMAIN details : parsable(details[n].quotaResetDelay) }
           first(S) == CHOOSE n \in S : \A other \in S : n <= other
       IN  IF ~text.json \/ ~text.has_details THEN ~returned.value.some
           ELSE IF retry_info # {}
           THEN returned.value = parse_duration_ms(details[first(retry_info)].retryDelay)
           ELSE IF quota # {}
           THEN returned.value = parse_duration_ms(details[first(quota)].quotaResetDelay)
           ELSE ~returned.value.some

\* the quotaResetDelay of the first entry (5 s) lost against the retryDelay
\* of the RetryInfo entry after it (1.5 s)
C34_Witness ==
    /\ returned.done
    /\ call.fn = "parse_retry_delay_ms"
    /\ Len(call.error_text.details) = 2
    /\ call.error_text.details[1].type = "type.googleapis.com/google.rpc.QuotaFailure"
    /\ call.error_text.details[1].quotaResetDelay = << "5", "s" >>
    /\ call.error_text.details[2].type = "type.googleapis.com/google.rpc.RetryInfo"
    /\ call.error_text.details[2].retryDelay = << "1", ".", "5", "s" >>
    /\ returned.value = Some(1500)

\* parse_duration_ms has returned for a valid duration string
ValidParsed ==
    /\ returned.done
    /\ call.fn = "parse_duration_ms"
    /\ call.duration_str \in ValidDurations

C36_FlagsMonotonic ==
    [][ /\ message_stop_sent => message_stop_sent'
        /\ used_tool => used_tool'
        /\ has_content => has_content'
        /\ (~used_tool /\ used_tool') =>
              /\ ProcessChunkStep
              /\ \E i \in DOMAIN events' :
                    /\ events'[i].event = "content_block_start"
                    /\ events'[i].type = "tool_use"
        /\ (~message_stop_sent /\ message_stop_sent') =>
              /\ ProcessChunkStep
              /\ \E i \in DOMAIN events' : events'[i] = MessageStop
        /\ ProcessChunkStep => message_start_sent' = message_start_sent
      ]_vars

\* a second finish has been processed and every flag is still set
C36_Witness ==
    /\ seen.n_message_delta >= 2
    /\ message_start_sent
    /\ message_stop_sent
    /\ used_tool
    /\ has_content

\* a thinking delta; a text delta that is not empty and has no signature
ThinkingDelta(c) == IsThinkingChunk(c)
TextDelta(c) == IsTextChunk(c) /\ c.thoughtSignature = Absent

\* the events of a call close the open block and start a block of `type`
\* at the next index, before every delta of `delta_type`
Switches(evs, index, type, delta_type) ==
    \E i, j \in DOMAIN evs :
       /\ i < j
       /\ evs[i] = BlockStop(index)
       /\ evs[j] = BlockStart(index + 1, type)
       /\ \A k \in DOMAIN evs :
             evs[k].type = delta_type => k > j /\ evs[k].index = index + 1

\* a process_chunk step after a delta without finish_reason extends the
\* block of that delta when the kinds are the same, and switches the block
\* when they differ
ExtendsOrSwitches ==
    (ProcessChunkStep /\ chunk.finish_reason = Absent) =>
       /\ ( \/ ThinkingDelta(chunk) /\ ThinkingDelta(chunk')
            \/ TextDelta(chunk) /\ TextDelta(chunk') ) =>
             /\ Positions(events', "content_block_start") = {}
             /\ \A i \in DOMAIN events' :
                   events'[i].type \in {"thinking_delta", "text_delta"} =>
                      events'[i].index = block_index
             /\ chunk.content # "" =>
                   /\ events[Len(events)].type \in {"thinking_delta", "text_delta"}
                   /\ events[Len(events)].index = block_index
       /\ (TextDelta(chunk) /\ ThinkingDelta(chunk')) =>
             Switches(events', block_index, "thinking", "thinking_delta")
       /\ (ThinkingDelta(chunk) /\ TextDelta(chunk')) =>
             Switches(events', block_index, "text", "text_delta")

\* C37: of two deltas processed one after the other (the first without a
\* finish_reason), when both are thinking deltas or both are text deltas
\* without signature the second emits no content_block_start and its delta
\* carries the index of the first one's; when the first is a text delta
\* and the second a thinking delta, or the other way round, the second
\* emits content_block_stop of the open block and content_block_start of
\* the new kind at the next index, before its delta.
C37_RunsExtendOneBlock == [][ExtendsOrSwitches]_vars

\* the same where the deltas do not follow a function call that left its
\* tool_use block open
C37_WithoutToolUse == [][current_type # "ToolUse" => ExtendsOrSwitches]_vars

(***************************************************************************)
(* The token manager where no write of an account file fails.              *)
(***************************************************************************)
\* std::fs::write returns Ok in save_refreshed_token and save_project_id:
\* every step that calls one of them leaves the account file written
WritesSucceed ==
    /\ \A p \in Requests :
          /\ (requests[p].pc = "refresh" /\ requests'[p].pc = "store_token") =>
                files' = save_refreshed_token(
                            files, requests[p].token.account_id,
                            [ access_token |-> requests'[p].token.access_token,
                              expires_in |-> requests'[p].token.expires_in ],
                            clock)
          /\ (requests[p].pc = "resolve" /\ requests'[p].pc = "store_project") =>
                files' = save_project_id(files, requests[p].token.account_id,
                                         requests'[p].token.project_id)
    /\ (refresher.pc = "save" /\ refresher'.pc # "save") =>
          files' = save_refreshed_token(files, Head(refresher.tokens).account_id,
                                        refresher.response, clock)

PersistSpec == TokenInit /\ [][TokenNext /\ WritesSucceed]_vars

\* no get_token call is running and no update_token call is between its
\* update of the record and its write of the file
Quiescent ==
    /\ \A p \in Requests : requests[p].pc = "idle"
    /\ refresher.pc # "save"

\* C38: where no file write fails, whenever the get_token and update_token
\* calls have all completed, the token of every account file (access_token,
\* expiry_timestamp, project_id) is that of the account's record in memory
\* (access_token, timestamp, project_id).
C38_PersistedEqualsMemory ==
    Quiescent =>
       \A a \in DOMAIN tokens :
          /\ files[a].access_token = tokens[a].access_token
          /\ files[a].expiry_timestamp = tokens[a].timestamp
          /\ files[a].project_id = tokens[a].project_id

(***************************************************************************)
(* The signature cache called from several threads: get_tool_signature and *)
(* cleanup_expired take the map's lock once for each of their accesses.    *)
(***************************************************************************)
\* DashMap::remove
remove(m, key) == [k \in DOMAIN m \ {key} |-> m[k]]

\* get_tool_signature up to the release of the read guard (lines 91-96):
\* Some(signature) of an entry that is not expired, None where there is no
\* entry, `drop(entry)` of an expired one
GetLookup(tool_use_id) ==
    /\ pending.evicting = Absent
    /\ IF tool_use_id \in DOMAIN tool_signatures
       THEN IF ~is_expired(tool_signatures[tool_use_id], expiry_secs, clock)
            THEN /\ last_call' = [op |-> "get", key |-> tool_use_id, signature |-> Absent,
                                  result |-> tool_signatures[tool_use_id].signature,
                                  removed_count |-> 0]
                 /\ UNCHANGED pending
            ELSE /\ pending' = [pending EXCEPT !.evicting = tool_use_id]
                 /\ UNCHANGED last_call
       ELSE /\ last_call' = [op |-> "get", key |-> tool_use_id, signature |-> Absent,
                             result |-> Absent, removed_count |-> 0]
            /\ UNCHANGED pending
    /\ UNCHANGED tool_signatures
    /\ CacheOnly

\* get_tool_signature from line 97: remove(tool_use_id), whatever the map
\* holds under the key by now, and None
GetEvict ==
    /\ pending.evicting # Absent
    /\ tool_signatures' = remove(tool_signatures, pending.evicting)
    /\ last_call' = [op |-> "get", key |-> pending.evicting, signature |-> Absent,
                     result |-> Absent, removed_count |-> 0]
    /\ pending' = [pending EXCEPT !.evicting = Absent]
    /\ CacheOnly

\* cleanup_expired, lines 140-149: the keys of the expired entries are
\* collected
CleanupCollect ==
    /\ ~pending.cleaning
    /\ LET expired_keys == {k \in DOMAIN tool_signatures :
                               is_expired(tool_signatures[k], expiry_secs, clock)}
       IN  pending' = [pending EXCEPT !.cleaning = TRUE,
                                      !.expired_keys = expired_keys,
                                      !.removed_count = Cardinality(expired_keys)]
    /\ UNCHANGED << tool_signatures, last_call >>
    /\ CacheOnly

\* cleanup_expired, lines 152-154: one round of the loop over expired_keys
\* (the Vec is in the order of the map's iteration, which is any order)
CleanupRemove ==
    /\ pending.cleaning
    /\ \E key \in pending.expired_keys :
          /\ tool_signatures' = remove(tool_signatures, key)
          /\ pending' = [pending EXCEPT !.expired_keys = @ \ {key}]
    /\ UNCHANGED last_call
    /\ CacheOnly

\* cleanup_expired, lines 156-170: removed_count = expired_keys.len()
CleanupReturn ==
    /\ pending.cleaning
    /\ pending.expired_keys = {}
    /\ last_call' = [op |-> "cleanup_expired", key |-> Absent, signature |-> Absent,
                     result |-> Absent, removed_count |-> pending.removed_count]
    /\ pending' = NoPending
    /\ UNCHANGED tool_signatures
    /\ CacheOnly

\* stores, a reader and a cleaner on one cache, on threads of their own
ConcurrentCacheSpec ==
    SignatureInit
    /\ [][ \/ TimePasses
           \/ \E k \in ToolUseIds, sig \in Signatures : StoreToolSignature(k, sig)
           \/ \E k \in ToolUseIds : GetLookup(k)
           \/ GetEvict
           \/ CleanupCollect
           \/ CleanupRemove
           \/ CleanupReturn ]_vars

\* C39: whatever calls run concurrently, an entry leaves the cache only by a
\* removal step of get_tool_signature or cleanup_expired, and the entry
\* such a step removes is expired at the moment of the removal; a stored
\* signature therefore stays until its TTL has elapsed or it is overwritten.
C39_OnlyExpiredRemoved ==
    [][ \A k \in DOMAIN tool_signatures \ DOMAIN tool_signatures' :
           is_expired(tool_signatures[k], expiry_secs, clock) ]_vars

\* the step in which the OAuth refresh of the get_token call of task p fails
RefreshFails(p) ==
    requests[p].pc = "refresh" /\ requests'[p].pc \notin {"refresh", "store_token"}

\* the step in which refresh_account fails in the refresher's pass
RefresherRefreshFails ==
    refresher.pc = "refresh" /\ refresher'.pc \notin {"refresh", "save"}

\* C40: a failed OAuth refresh changes no token state.  In get_token the
\* clone is the selected record when the refresh is awaited and stays so
\* while it is; when the refresh fails the records of the map and the
\* account files stay as they are and the clone, with the access token and
\* the expiry it was cloned with, is what get_token goes on with and
\* returns.  In a pass of the refresher a failed refresh leaves the records
\* and the files as they are and the pass goes on to check the accounts
\* that remain in its snapshot.
C40_FailedRefreshKeepsState ==
    [][ /\ \A p \in Requests :
              LET r == requests[p]
                  r2 == requests'[p]
              IN  /\ (r.pc = "clone" /\ r2.pc = "refresh") => r2.token = Selected(r.idx)
                  /\ (r.pc = "refresh" /\ r2.pc = "refresh") => r2.token = r.token
                  /\ RefreshFails(p) =>
                        /\ tokens' = tokens
                        /\ files' = files
                        /\ Returns(p) \/ (r2.pc = "resolve" /\ r2.token = r.token)
                  /\ (r.pc \in {"resolve", "store_project"} /\ ~Returns(p)) =>
                        /\ r2.token.access_token = r.token.access_token
                        /\ r2.token.timestamp = r.token.timestamp
        /\ RefresherRefreshFails =>
              /\ tokens' = tokens
              /\ files' = files
              /\ refresher'.tokens = Tail(refresher.tokens)
              /\ refresher'.tokens # << >> => refresher'.pc = "check"
      ]_vars

\* C40 witness: both accounts are loaded and the first is due; in the
\* refresher's pass the refresh of the first failed, its record and its
\* file are as they were loaded, and the pass is about to check the second
C40_Witness ==
    /\ DOMAIN tokens = {AccountIds[1], AccountIds[2]}
    /\ should_refresh(tokens[AccountIds[1]], refresh_ahead_secs, clock)
    /\ tokens[AccountIds[1]] = ProxyToken(AccountIds[1], AccountFile(600, "proj1"))
    /\ files[AccountIds[1]] = AccountFile(600, "proj1")
    /\ refresher.pc = "check"
    /\ Len(refresher.tokens) = 1
    /\ Head(refresher.tokens).account_id = AccountIds[2]

====
